---------------------------- MODULE Spec2Model ----------------------------
(***************************************************************************)
(* A model of the pest-control backend's renewal scheduling and urgency    *)
(* engine (core/services.py RenewalService, core/models.py Renewal and     *)
(* JobCard) and of the client de-duplication it depends on                 *)
(* (core/services.py ClientService, JobCardService.create_jobcard).        *)
(*                                                                         *)
(* The store is a relational database accessed through Django.  The       *)
(* specifications share the variables:                                     *)
(*   SpecRegistry  request processes stepping statement by statement       *)
(*                 through the client find-or-create code paths, with      *)
(*                 READ COMMITTED visibility and a unique index on         *)
(*                 Client.mobile;                                          *)
(*   Spec          the job / renewal / urgency engine with a clock;        *)
(*   SpecJobs      request processes stepping through the two statements   *)
(*                 of JobCard.save during concurrent job card creation;    *)
(*   SpecClassify  Renewal.update_urgency_level applied to one renewal;    *)
(*   SpecSummary   RenewalService.get_upcoming_summary read over stored    *)
(*                 renewals;                                               *)
(*   SpecUrgency   update_urgency_levels and mark_completed run            *)
(*                 concurrently, one action per database statement, with   *)
(*                 the nested calls Renewal.save makes;                    *)
(*   SpecStatus    the operations that write renewals, in sequence;        *)
(*   SpecJobWrites toggle_jobcard_pause and update_payment_status run      *)
(*                 concurrently on one job card;                           *)
(*   SpecConvert   InquiryService.convert_to_jobcard under                 *)
(*                 transaction.atomic.                                     *)
(***************************************************************************)
EXTENDS Integers, Sequences, FiniteSets, TLC

(***************************************************************************)
(* Bounds of the model.                                                    *)
(***************************************************************************)
NumProcs == 2
MaxJobs == 2
MaxRenewals == 14
MaxTicks == 6
MaxExtraOps == 1
TicksPerDay == 2
MaxProbe == 10

None == "None"

(***************************************************************************)
(* Calendar arithmetic: datetime.date, dateutil relativedelta(months=k)    *)
(* and timedelta(days=1) as generate_renewals_for_jobcard uses them.       *)
(***************************************************************************)
Date(y, m, d) == [y |-> y, m |-> m, d |-> d]

EpochDate == Date(2025, 1, 1)

IsLeap(y) == (y % 4 = 0 /\ y % 100 # 0) \/ y % 400 = 0

DaysInMonth(y, m) ==
    IF m = 2 THEN (IF IsLeap(y) THEN 29 ELSE 28)
    ELSE IF m \in {4, 6, 9, 11} THEN 30 ELSE 31

DaysInYear(y) == IF IsLeap(y) THEN 366 ELSE 365

Min(a, b) == IF a <= b THEN a ELSE b

\* date + relativedelta(months=k): the month is advanced and the day is
\* clamped to the last day of the target month.
relativedelta(date, months) ==
    LET total == date.y * 12 + (date.m - 1) + months
        ny == total \div 12
        nm == (total % 12) + 1
    IN  Date(ny, nm, Min(date.d, DaysInMonth(ny, nm)))

\* date - timedelta(days=1)
MinusOneDay(date) ==
    IF date.d > 1 THEN Date(date.y, date.m, date.d - 1)
    ELSE IF date.m > 1
         THEN Date(date.y, date.m - 1, DaysInMonth(date.y, date.m - 1))
         ELSE Date(date.y - 1, 12, 31)

RECURSIVE DaysBeforeYear(_)
DaysBeforeYear(y) ==
    IF y <= EpochDate.y THEN 0 ELSE DaysInYear(y - 1) + DaysBeforeYear(y - 1)

RECURSIVE DaysBeforeMonth(_, _)
DaysBeforeMonth(y, m) ==
    IF m <= 1 THEN 0 ELSE DaysInMonth(y, m - 1) + DaysBeforeMonth(y, m - 1)

\* Days since EpochDate (date.toordinal() up to a constant offset).
ToOrdinal(date) == DaysBeforeYear(date.y) + DaysBeforeMonth(date.y, date.m) + (date.d - 1)

\* timezone.make_aware(datetime.combine(date, datetime.min.time())): the
\* instant, in clock ticks, of local midnight at the start of `date`.
Midnight(date) == ToOrdinal(date) * TicksPerDay

DateLE(a, b) == ToOrdinal(a) <= ToOrdinal(b)

(***************************************************************************)
(* Urgency classification, Renewal.update_urgency_level.                   *)
(***************************************************************************)
High == "High"
Medium == "Medium"
Normal == "Normal"
UrgencyLevels == {High, Medium, Normal}

UrgencyWindowDays == 3

update_urgency_level_lt(due, t) ==
    IF due < t THEN High
    ELSE IF due < t + UrgencyWindowDays * TicksPerDay THEN Medium
    ELSE Normal

update_urgency_level(due, t) ==
    IF due <= t THEN High
    ELSE IF due <= t + UrgencyWindowDays * TicksPerDay THEN Medium
    ELSE Normal

(***************************************************************************)
(* Contact numbers: strings as sequences of characters.                    *)
(***************************************************************************)
Digits == {"0", "1", "2", "3", "4", "5", "6", "7", "8", "9"}

\* The characters matched by the regular expression [\s\-\(\)].
StripChars == {" ", "\t", "\n", "-", "(", ")"}

MobileDigits == 10

\* re.sub(r'[\s\-\(\)]', '', str(mobile))
CleanMobile(s) == SelectSeq(s, LAMBDA c : c \notin StripChars)

\* re.match(r'^\d{10}$', mobile)
IsAllDigits(s) == \A i \in 1..Len(s) : s[i] \in Digits

IsTenDigits(s) == Len(s) = MobileDigits /\ \A i \in 1..Len(s) : s[i] \in Digits

RawPlain == <<"9", "8", "7", "6", "5", "4", "3", "2", "1", "0">>
RawFormatted == <<"9", "8", "-", "7", "6", "5", " ", "4", "3", "2", "1", "0">>
RawOther == <<"(", "9", "1", "2", ")", "3", "4", "5", "6", "7", "8", "9">>
RawShort == <<"9", "8", "-", "7", "6", "5">>
RawMobiles == {RawPlain, RawFormatted, RawOther, RawShort}

Names == {"", "Asha"}
Cities == {"", "Pune"}
NameLen(n) == IF n = "" THEN 0 ELSE 4


(***************************************************************************)
(* Job cards: JobCard fields and JobCard.clean.                            *)
(***************************************************************************)
Customer == "Customer"
Society == "Society"
JobTypes == {Customer, Society}

\* JobCard.ContractDuration choices: the stored strings, months.
ContractDurations == {"3", "6", "12"}

\* int(jobcard.contract_duration)
ToInt(s) == CASE s = "3" -> 3 [] s = "6" -> 6 [] s = "12" -> 12

\* A DateField holding NULL.
NoDate == Date(0, 0, 0)

\* JobCard.PaymentStatus choices.
Unpaid == "Unpaid"
Paid == "Paid"
PaymentStatuses == {Unpaid, Paid}

Due == "Due"
Completed == "Completed"
Contract == "Contract"
Monthly == "Monthly"

ScheduleDates == {Date(2025, 1, 1), Date(2025, 1, 31)}
NextServiceDates == {Date(2025, 1, 1), Date(2025, 2, 1)}
StartDate == Date(2025, 1, 28)

\* The request fields of a job card that the engine reads.
JobInputs ==
    [job_type : JobTypes,
     contract_duration : {None} \cup ContractDurations,
     schedule_date : ScheduleDates,
     next_service_date : {NoDate} \cup NextServiceDates,
     service_type : {"", "Termite"},
     price : {"", "500"}]

\* JobCardService.create_jobcard's required-field check followed by
\* JobCard.full_clean(): TRUE when the job card is accepted.
JobCardClean(d) ==
    /\ d.service_type # ""
    /\ d.price # ""
    /\ ~(d.job_type = Society /\ d.contract_duration = None)
    /\ (d.next_service_date # NoDate => ~DateLE(d.next_service_date, d.schedule_date))

\* f"JC-{pk:04d}"
JobCode(pk) == <<"JC", pk>>

\* The row JobCard.save() leaves for a new job card with primary key pk.
NewJobDetached(pk, clientId, d) ==
    [client |-> 0,
     job_type |-> d.job_type,
     contract_duration |-> d.contract_duration,
     schedule_date |-> d.schedule_date,
     next_service_date |-> d.next_service_date,
     is_paused |-> FALSE,
     payment_status |-> Unpaid,
     code |-> JobCode(pk)]

NewJob(pk, clientId, d) ==
    [client |-> clientId,
     job_type |-> d.job_type,
     contract_duration |-> d.contract_duration,
     schedule_date |-> d.schedule_date,
     next_service_date |-> d.next_service_date,
     is_paused |-> FALSE,
     payment_status |-> Unpaid,
     code |-> JobCode(pk)]

(***************************************************************************)
(* State.                                                                  *)
(***************************************************************************)
VARIABLES
    clients,        \* committed Client rows
    nextClientId,   \* the Client id sequence
    jobs,           \* JobCard rows, indexed by primary key
    renewals,       \* Renewal rows, indexed by primary key
    now,            \* timezone.now(), in ticks
    gen,            \* the running generate_renewals_for_jobcard call, or None
    lastGen,        \* the last finished generate call: its job, what existed, what it returned
    lastSaved,      \* the Renewal whose save() has just completed, or None
    extraOps,       \* how many maintenance requests (regenerate, update, create, complete,
                    \* recompute, pause) and generation failures were served
    out,            \* what the request served last answered, or None
    probe,          \* a Renewal under test in SpecClassify
    pc,             \* per request process: its position in the code
    req,            \* per request process: its arguments
    pending,        \* per request process: the row inserted but not yet committed
    res,            \* per request process: what the call returned or raised
    local,          \* per request process: the objects it has loaded and the
                    \* querysets its running loops iterate, innermost call last
    inquiries       \* Inquiry rows, indexed by primary key

engineVars == <<renewals, now, gen, lastGen, lastSaved, extraOps, out>>
vars == <<clients, nextClientId, jobs, renewals, now, gen, lastGen, lastSaved, extraOps,
          out, probe, pc, req, pending, res, local, inquiries>>

Procs == 1..NumProcs

NoReq == [kind |-> None, mobile |-> <<>>, full_name |-> "", city |-> ""]
NoRes == [status |-> None, created |-> FALSE, client |-> 0, error |-> None]
NoClient == [id |-> 0, mobile |-> <<>>, full_name |-> "", city |-> "", is_active |-> FALSE]
NoProbe == [due |-> 0, at |-> 0, urgency_level |-> None]
NoJob == [client |-> 0, job_type |-> Customer, contract_duration |-> None,
          schedule_date |-> NoDate, next_service_date |-> NoDate,
          is_paused |-> FALSE, payment_status |-> Unpaid, code |-> JobCode(0)]
NoGenCall == [job |-> 0, obj |-> NoJob, caller |-> None, phase |-> "idle", month |-> 0,
              created |-> <<>>, before |-> {}]
NoGenDone == [job |-> 0, obj |-> NoJob, before |-> {}, created |-> <<>>]
NoSaved == [id |-> 0, jobcard |-> 0]
\* saves: the saves made by update_urgency_levels_for_jobcard calls so far;
\* late: those of them whose row was no longer Due when written; stale: the
\* stale Due renewals of the job card when the request's own save was done.
NoObject == [pk |-> 0]
\* savepoint: the rows as they were when the request's transaction began.
NoLocal == [stack |-> <<>>, saves |-> 0, late |-> 0, stale |-> 0, job |-> 0, obj |-> NoObject,
            savepoint |-> NoObject]
NoOut == [op |-> None, job |-> 0, status |-> None, count |-> 0, gen_failed |-> FALSE]

Init ==
    /\ clients = {}
    /\ nextClientId = 1
    /\ jobs = <<>>
    /\ renewals = <<>>
    /\ now = Midnight(StartDate)
    /\ gen = NoGenCall
    /\ lastGen = NoGenDone
    /\ lastSaved = NoSaved
    /\ extraOps = 0
    /\ out = NoOut
    /\ probe = NoProbe
    /\ pc = [p \in Procs |-> "idle"]
    /\ req = [p \in Procs |-> NoReq]
    /\ pending = [p \in Procs |-> NoClient]
    /\ res = [p \in Procs |-> NoRes]
    /\ local = [p \in Procs |-> NoLocal]
    /\ inquiries = <<>>

(***************************************************************************)
(* Customer registry: ClientService and the client_data path of            *)
(* JobCardService.create_jobcard, one action per database statement.       *)
(* Reads see committed rows only; an INSERT waits while another            *)
(* transaction holds an uncommitted row with the same mobile, and fails    *)
(* with IntegrityError once a committed row with that mobile exists.       *)
(***************************************************************************)
GetOrCreate == "get_or_create_client"
CreateOrGet == "create_or_get_client"
CreateClient == "create_client"
JobCardPath == "create_jobcard"
FindOrCreateKinds == {GetOrCreate, CreateOrGet}

Requests ==
         [kind : {GetOrCreate}, mobile : RawMobiles, full_name : Names, city : {""}]
    \cup [kind : {CreateOrGet, CreateClient}, mobile : RawMobiles, full_name : Names, city : Cities]
    \cup [kind : {JobCardPath}, mobile : RawMobiles, full_name : {""}, city : {""}]

\* The dictionary handed to create_client.
ClientData(r) ==
    [full_name |-> r.full_name,
     mobile |-> CleanMobile(r.mobile),
     city |-> IF r.kind = GetOrCreate /\ r.city = "" THEN "Unknown" ELSE r.city]

NewClient(id, data) ==
    [id |-> id, mobile |-> data.mobile, full_name |-> data.full_name,
     city |-> data.city, is_active |-> TRUE]

\* Client.objects.get(mobile=m) over the committed rows.
ClientExists(m) == \E c \in clients : c.mobile = m
ClientGet(m) == CHOOSE c \in clients : c.mobile = m

\* The unique index on Client.mobile: the INSERT of mobile m conflicts.
NoUniqueViolation(m) == FALSE

UniqueViolation(m) == ClientExists(m)

\* Another transaction holds an uncommitted row with mobile m.
InsertBlocked(p, m) ==
    \E q \in Procs \ {p} : pending[q] # NoClient /\ pending[q].mobile = m

FoundAsCreated(c) == [status |-> "ok", created |-> TRUE, client |-> c.id, error |-> None]

Found(c) == [status |-> "ok", created |-> FALSE, client |-> c.id, error |-> None]

Created(c) == [status |-> "ok", created |-> TRUE, client |-> c.id, error |-> None]

Failed(e) == [status |-> "error", created |-> FALSE, client |-> 0, error |-> e]

\* The ValidationError handler of get_or_create_client / create_or_get_client
\* when the message names the mobile conflict: read the row again.
Recover(m) ==
    IF ClientExists(m) THEN Found(ClientGet(m)) ELSE Failed("UnableToCreateOrFind")

Begin(p) ==
    /\ pc[p] = "idle"
    /\ \E r \in Requests :
        /\ req' = [req EXCEPT ![p] = r]
        /\ pc' = [pc EXCEPT ![p] =
                    IF r.kind \in FindOrCreateKinds THEN "lookup"
                    ELSE IF r.kind = CreateClient THEN "check"
                    ELSE "jc_get"]
    /\ UNCHANGED <<clients, nextClientId, jobs, pending, res, probe>>
    /\ UNCHANGED <<engineVars, local, inquiries>>

\* Client.objects.select_for_update().get(mobile=cleaned_mobile)
Lookup(p) ==
    /\ pc[p] = "lookup"
    /\ LET m == CleanMobile(req[p].mobile) IN
         IF ClientExists(m)
         THEN /\ res' = [res EXCEPT ![p] = Found(ClientGet(m))]
              /\ pc' = [pc EXCEPT ![p] = "done"]
         ELSE /\ pc' = [pc EXCEPT ![p] = "check"]
              /\ UNCHANGED res
    /\ UNCHANGED <<clients, nextClientId, jobs, req, pending, probe>>
    /\ UNCHANGED <<engineVars, local, inquiries>>

\* create_client up to the model validation: the existence check, the
\* required fields, the mobile format.
CreateCheck(p) ==
    /\ pc[p] = "check"
    /\ LET data == ClientData(req[p])
           handled == req[p].kind \in FindOrCreateKinds
       IN
         IF ClientExists(data.mobile)
         THEN /\ res' = [res EXCEPT ![p] =
                            IF handled THEN Recover(data.mobile) ELSE Failed("AlreadyExists")]
              /\ pc' = [pc EXCEPT ![p] = "done"]
         ELSE IF data.full_name = "" \/ data.mobile = <<>> \/ data.city = ""
         THEN /\ res' = [res EXCEPT ![p] = Failed("RequiredFieldMissing")]
              /\ pc' = [pc EXCEPT ![p] = "done"]
         ELSE IF ~IsTenDigits(data.mobile)
         THEN /\ res' = [res EXCEPT ![p] = Failed("InvalidInput")]
              /\ pc' = [pc EXCEPT ![p] = "done"]
         ELSE /\ pc' = [pc EXCEPT ![p] = "validate"]
              /\ UNCHANGED res
    /\ UNCHANGED <<clients, nextClientId, jobs, req, pending, probe>>
    /\ UNCHANGED <<engineVars, local, inquiries>>

\* client.full_clean(): Client.clean and validate_unique.
FullClean(p) ==
    /\ pc[p] = "validate"
    /\ LET data == ClientData(req[p])
           handled == req[p].kind \in FindOrCreateKinds
       IN
         IF ClientExists(data.mobile)
         THEN /\ res' = [res EXCEPT ![p] =
                            IF handled THEN Recover(data.mobile) ELSE Failed("AlreadyExists")]
              /\ pc' = [pc EXCEPT ![p] = "done"]
         ELSE IF NameLen(data.full_name) < 2
         THEN /\ res' = [res EXCEPT ![p] = Failed("InvalidInput")]
              /\ pc' = [pc EXCEPT ![p] = "done"]
         ELSE /\ pc' = [pc EXCEPT ![p] = "insert"]
              /\ UNCHANGED res
    /\ UNCHANGED <<clients, nextClientId, jobs, req, pending, probe>>
    /\ UNCHANGED <<engineVars, local, inquiries>>

\* client.save(): the INSERT.  An IntegrityError reaches the caller as
\* ValidationError("Failed to create client: <database message>"); whether
\* that message holds both 'mobile' and 'already exists' depends on the
\* database.  If it does, the handler reads again inside the transaction the
\* failed statement has broken (TransactionManagementError); if not, the
\* handler re-raises.  create_client called on its own runs in autocommit.
Insert(p) ==
    /\ pc[p] = "insert"
    /\ LET data == ClientData(req[p]) IN
        /\ ~InsertBlocked(p, data.mobile)
        /\ IF UniqueViolation(data.mobile)
           THEN /\ \E msgMatches \in BOOLEAN :
                     res' = [res EXCEPT ![p] =
                               IF req[p].kind = CreateClient \/ ~msgMatches
                               THEN Failed("IntegrityError")
                               ELSE Failed("TransactionManagementError")]
                /\ pc' = [pc EXCEPT ![p] = "done"]
                /\ UNCHANGED <<clients, nextClientId, pending>>
           ELSE /\ nextClientId' = nextClientId + 1
                /\ IF req[p].kind = CreateClient
                   THEN /\ clients' = clients \cup {NewClient(nextClientId, data)}
                        /\ res' = [res EXCEPT ![p] = Created(NewClient(nextClientId, data))]
                        /\ pc' = [pc EXCEPT ![p] = "done"]
                        /\ UNCHANGED pending
                   ELSE /\ pending' = [pending EXCEPT ![p] = NewClient(nextClientId, data)]
                        /\ pc' = [pc EXCEPT ![p] = "commit"]
                        /\ UNCHANGED <<clients, res>>
    /\ UNCHANGED <<jobs, req, probe>>
    /\ UNCHANGED <<engineVars, local, inquiries>>

\* return client, True: the transaction.atomic block commits.
Commit(p) ==
    /\ pc[p] = "commit"
    /\ clients' = clients \cup {pending[p]}
    /\ res' = [res EXCEPT ![p] = Created(pending[p])]
    /\ pending' = [pending EXCEPT ![p] = NoClient]
    /\ pc' = [pc EXCEPT ![p] = "done"]
    /\ UNCHANGED <<nextClientId, jobs, req, probe>>
    /\ UNCHANGED <<engineVars, local, inquiries>>

\* create_jobcard, client_data path: the mobile checks, then the SELECT of
\* Client.objects.get_or_create(mobile=cleaned_mobile, defaults=...).
JcGet(p) ==
    /\ pc[p] = "jc_get"
    /\ LET m == CleanMobile(req[p].mobile) IN
         IF req[p].mobile = <<>> \/ ~IsTenDigits(m)
         THEN /\ res' = [res EXCEPT ![p] = Failed("InvalidInput")]
              /\ pc' = [pc EXCEPT ![p] = "done"]
         ELSE IF ClientExists(m)
         THEN /\ res' = [res EXCEPT ![p] = Found(ClientGet(m))]
              /\ pc' = [pc EXCEPT ![p] = "jc_job"]
         ELSE /\ pc' = [pc EXCEPT ![p] = "jc_insert"]
              /\ UNCHANGED res
    /\ UNCHANGED <<clients, nextClientId, jobs, req, pending, probe>>
    /\ UNCHANGED <<engineVars, local, inquiries>>

\* The INSERT of get_or_create, inside its savepoint: on IntegrityError the
\* savepoint is rolled back and the row is read again.
JcInsert(p) ==
    /\ pc[p] = "jc_insert"
    /\ LET data == [full_name |-> req[p].full_name,
                    mobile |-> CleanMobile(req[p].mobile),
                    city |-> req[p].city]
       IN
        /\ ~InsertBlocked(p, data.mobile)
        /\ IF UniqueViolation(data.mobile)
           THEN /\ res' = [res EXCEPT ![p] = Recover(data.mobile)]
                /\ pc' = [pc EXCEPT ![p] =
                            IF ClientExists(data.mobile) THEN "jc_job" ELSE "done"]
                /\ UNCHANGED <<nextClientId, pending>>
           ELSE /\ nextClientId' = nextClientId + 1
                /\ pending' = [pending EXCEPT ![p] = NewClient(nextClientId, data)]
                /\ pc' = [pc EXCEPT ![p] = "jc_commit"]
                /\ UNCHANGED res
    /\ UNCHANGED <<clients, jobs, req, probe>>
    /\ UNCHANGED <<engineVars, local, inquiries>>

\* The end of the `with transaction.atomic()` block around get_or_create.
JcCommit(p) ==
    /\ pc[p] = "jc_commit"
    /\ clients' = clients \cup {pending[p]}
    /\ res' = [res EXCEPT ![p] = Created(pending[p])]
    /\ pending' = [pending EXCEPT ![p] = NoClient]
    /\ pc' = [pc EXCEPT ![p] = "jc_job"]
    /\ UNCHANGED <<nextClientId, jobs, req, probe>>
    /\ UNCHANGED <<engineVars, local, inquiries>>

\* The job cards the registry processes submit.
RegistryJobInputs ==
    {d \in JobInputs : /\ d.schedule_date = Date(2025, 1, 1)
                       /\ d.contract_duration \in {None, "3"}
                       /\ d.next_service_date \in {NoDate, Date(2025, 2, 1)}}

\* The rest of create_jobcard: the required fields, full_clean, save.
JcJob(p) ==
    /\ pc[p] = "jc_job"
    /\ \E d \in RegistryJobInputs :
         IF JobCardClean(d)
         THEN /\ jobs' = Append(jobs, NewJob(Len(jobs) + 1, res[p].client, d))
              /\ UNCHANGED res
         ELSE /\ res' = [res EXCEPT ![p] = [@ EXCEPT !.status = "error", !.error = "JobInvalid"]]
              /\ UNCHANGED jobs
    /\ pc' = [pc EXCEPT ![p] = "done"]
    /\ UNCHANGED <<clients, nextClientId, req, pending, probe>>
    /\ UNCHANGED <<engineVars, local, inquiries>>

NextRegistry ==
    \E p \in Procs :
        \/ Begin(p)
        \/ Lookup(p)
        \/ CreateCheck(p)
        \/ FullClean(p)
        \/ Insert(p)
        \/ Commit(p)
        \/ JcGet(p)
        \/ JcInsert(p)
        \/ JcCommit(p)
        \/ JcJob(p)

SpecRegistry == Init /\ [][NextRegistry]_vars

(***************************************************************************)
(* Renewals: Renewal.save and the urgency recomputation it triggers.       *)
(***************************************************************************)
\* What the generator and a manual creation write into Renewal.remarks.
RemarkCustomer == <<"Service renewal for customer", 0>>
RemarkContract(n) == <<"Contract renewal for society", n>>
RemarkMonthly(k) == <<"Monthly service reminder for society", k>>
RemarkManual == <<"manual", 0>>

\* A Renewal object as constructed, before save(): urgency_level holds the
\* field default unless the caller passed one.
NewRenewal(j, due, type, remarks) ==
    [jobcard |-> j, due_date |-> due, status |-> Due, renewal_type |-> type,
     urgency_level |-> Normal, remarks |-> remarks]

\* Renewal.objects.filter(jobcard_id=j, status='Due')
DueOfJob(rs, j) == {i \in DOMAIN rs : rs[i].jobcard = j /\ rs[i].status = Due}

\* The first row of a queryset in Meta.ordering = ['due_date'] order.
FirstByDueDate(rs, ids) ==
    CHOOSE i \in ids : \A k \in ids :
        \/ rs[i].due_date < rs[k].due_date
        \/ (rs[i].due_date = rs[k].due_date /\ i <= k)

RECURSIVE update_urgency_levels_for_jobcard(_, _, _)
RECURSIVE UrgencyLoop(_, _, _, _)
RECURSIVE SaveUrgencyField(_, _, _, _)

\* renewal.save(update_fields=['urgency_level']) on the loaded object obj
\* with primary key i: Renewal.save recomputes the level, writes that one
\* column, and runs the per-job recomputation again.
SaveUrgencyField(rs, i, obj, t) ==
    LET written == [rs EXCEPT ![i].urgency_level = update_urgency_level(obj.due_date, t)]
    IN  update_urgency_levels_for_jobcard(written, obj.jobcard, t)

\* The body of the for loop of update_urgency_levels_for_jobcard over the
\* objects `loaded` when the queryset was evaluated; `todo` are those left.
UrgencyLoop(rs, loaded, todo, t) ==
    IF todo = {} THEN rs
    ELSE LET i == FirstByDueDate(loaded, todo)
             obj == loaded[i]
             after == IF obj.urgency_level # update_urgency_level(obj.due_date, t)
                      THEN SaveUrgencyField(rs, i, obj, t)
                      ELSE rs
         IN  UrgencyLoop(after, loaded, todo \ {i}, t)

SkipSiblingUpdate(rs, j, t) == rs

update_urgency_levels_for_jobcard(rs, j, t) ==
    UrgencyLoop(rs, rs, DueOfJob(rs, j), t)

\* Renewal.save() of a new object: update_urgency_level, INSERT, then the
\* recomputation for the job card's renewals.
SaveNew(rs, obj, t) ==
    LET row == [obj EXCEPT !.urgency_level = update_urgency_level(obj.due_date, t)]
    IN  update_urgency_levels_for_jobcard(Append(rs, row), obj.jobcard, t)

\* Renewal.save() of a loaded object obj with primary key i: every column
\* is written from the object.
SaveAll(rs, i, obj, t) ==
    LET row == [obj EXCEPT !.urgency_level = update_urgency_level(obj.due_date, t)]
    IN  update_urgency_levels_for_jobcard([rs EXCEPT ![i] = row], obj.jobcard, t)

Saved(i, j) == [id |-> i, jobcard |-> j]

\* Renewal.objects.filter(status='Due')
AllDue(rs) == {i \in DOMAIN rs : rs[i].status = Due}

RECURSIVE RecomputeLoop(_, _, _, _, _)

\* The for loop of update_urgency_levels over the objects `loaded` when the
\* queryset was evaluated: an object whose loaded level differs from the
\* computed one is saved and counted.
RecomputeLoop(rs, loaded, todo, t, updated_count) ==
    IF todo = {} THEN [renewals |-> rs, updated_count |-> updated_count]
    ELSE LET i == FirstByDueDate(loaded, todo)
             obj == loaded[i]
             changed == obj.urgency_level # update_urgency_level(obj.due_date, t)
         IN  RecomputeLoop(IF changed THEN SaveUrgencyField(rs, i, obj, t) ELSE rs,
                           loaded, todo \ {i}, t,
                           IF changed THEN updated_count + 1 ELSE updated_count)

Stale(rs, t) ==
    {i \in AllDue(rs) : rs[i].urgency_level # update_urgency_level(rs[i].due_date, t)}

update_urgency_levels_dry(rs, t) ==
    [renewals |-> rs, updated_count |-> Cardinality(Stale(rs, t))]

\* RenewalService.update_urgency_levels: the rows afterwards and the count
\* returned.
update_urgency_levels_reopening(rs, t) ==
    LET done == RecomputeLoop(rs, rs, AllDue(rs), t, 0)
    IN  [renewals |-> [i \in DOMAIN rs |-> [done.renewals[i] EXCEPT !.status = Due]],
         updated_count |-> done.updated_count]

update_urgency_levels(rs, t) == RecomputeLoop(rs, rs, AllDue(rs), t, 0)

(***************************************************************************)
(* Read-side queries of RenewalService and RenewalViewSet.                 *)
(***************************************************************************)
WeekDays == 7
MonthDays == 30

\* The queryset of get_active_renewals(include_paused) over the Renewal
\* rows rows and the JobCard rows js.
ActiveIgnoringPause(rows, js, include_paused) ==
    {i \in DOMAIN rows : rows[i].status = Due}

ActiveOn(rows, js, include_paused) ==
    {i \in DOMAIN rows :
        /\ rows[i].status = Due
        /\ (~include_paused => ~js[rows[i].jobcard].is_paused)}

\* RenewalService.get_active_renewals(include_paused)
get_active_renewals(include_paused) == ActiveOn(renewals, jobs, include_paused)

\* The dictionary of get_upcoming_summary(include_paused) over the rows
\* rows and js at instant t.
SummaryOnOpenWindows(rows, js, t, include_paused) ==
    LET rs == ActiveOn(rows, js, include_paused)
        week == t + WeekDays * TicksPerDay
        month == t + MonthDays * TicksPerDay
    IN  [due_this_week |->
             Cardinality({i \in rs : rows[i].due_date < week /\ rows[i].due_date > t}),
         due_this_month |->
             Cardinality({i \in rs : rows[i].due_date < month /\ rows[i].due_date > t}),
         overdue |-> Cardinality({i \in rs : rows[i].due_date <= t}),
         high_urgency |-> Cardinality({i \in rs : rows[i].urgency_level = High}),
         medium_urgency |-> Cardinality({i \in rs : rows[i].urgency_level = Medium}),
         normal_urgency |-> Cardinality({i \in rs : rows[i].urgency_level = Normal})]

SummaryOn(rows, js, t, include_paused) ==
    LET rs == ActiveOn(rows, js, include_paused)
        week == t + WeekDays * TicksPerDay
        month == t + MonthDays * TicksPerDay
    IN  [due_this_week |->
             Cardinality({i \in rs : rows[i].due_date <= week /\ rows[i].due_date >= t}),
         due_this_month |->
             Cardinality({i \in rs : rows[i].due_date <= month /\ rows[i].due_date >= t}),
         overdue |-> Cardinality({i \in rs : rows[i].due_date < t}),
         high_urgency |-> Cardinality({i \in rs : rows[i].urgency_level = High}),
         medium_urgency |-> Cardinality({i \in rs : rows[i].urgency_level = Medium}),
         normal_urgency |-> Cardinality({i \in rs : rows[i].urgency_level = Normal})]

\* RenewalService.get_upcoming_summary(include_paused)
get_upcoming_summary(include_paused) == SummaryOn(renewals, jobs, now, include_paused)

\* Python truth of a query parameter: absent and empty are false.
Truthy(x) == x # None /\ x # ""

\* RenewalViewSet.active with the urgency_level query parameter: the parameter
\* is handed to get_active_renewals as its first argument.
active(urgency_level) == ActiveOn(renewals, jobs, Truthy(urgency_level))

\* RenewalViewSet.get_queryset with the include_paused query parameter and
\* without an urgency filter: the default renewal list.
RenewalList(include_paused) ==
    {i \in DOMAIN renewals : ~include_paused => ~jobs[renewals[i].jobcard].is_paused}

\* RenewalViewSet.get_queryset with the urgency_level query parameter.
ListByUrgency(level, include_paused) ==
    {i \in DOMAIN renewals :
        /\ (~include_paused => ~jobs[renewals[i].jobcard].is_paused)
        /\ renewals[i].urgency_level = level}

(***************************************************************************)
(* The engine: job card creation, renewal generation, completion, time.    *)
(* Every Renewal.save() is its own database transaction (autocommit), so   *)
(* generate_renewals_for_jobcard is one action per save.                   *)
(***************************************************************************)
EngineMobiles == {RawFormatted, RawShort}

JobInput(type, duration, schedule, next, service, price) ==
    [job_type |-> type, contract_duration |-> duration, schedule_date |-> schedule,
     next_service_date |-> next, service_type |-> service, price |-> price]

\* The job cards submitted to the engine: accepted ones of both types, and
\* ones JobCard.clean rejects.
EngineJobInputs ==
    {JobInput(Customer, None, Date(2025, 1, 1), NoDate, "Termite", "500"),
     JobInput(Customer, None, Date(2025, 1, 1), Date(2025, 2, 1), "Termite", "500"),
     JobInput(Customer, "3", Date(2025, 1, 1), Date(2025, 2, 1), "Termite", "500"),
     JobInput(Society, "3", Date(2025, 1, 1), NoDate, "Termite", "500"),
     JobInput(Society, "3", Date(2025, 1, 31), Date(2025, 2, 1), "Termite", "500"),
     JobInput(Society, "6", Date(2025, 1, 1), NoDate, "Termite", "500"),
     JobInput(Society, "12", Date(2025, 1, 1), NoDate, "Termite", "500"),
     JobInput(Society, None, Date(2025, 1, 1), NoDate, "Termite", "500"),
     JobInput(Customer, None, Date(2025, 1, 31), Date(2025, 1, 1), "Termite", "500"),
     JobInput(Customer, None, Date(2025, 1, 1), NoDate, "", "500"),
     JobInput(Customer, None, Date(2025, 1, 1), NoDate, "Termite", "")}

RenewalsOfJob(j) == {i \in DOMAIN renewals : renewals[i].jobcard = j}

\* How many renewals generate_renewals_for_jobcard creates for job card obj.
Needed(obj) ==
    IF obj.job_type = Customer
    THEN (IF obj.next_service_date # NoDate THEN 1 ELSE 0)
    ELSE IF obj.job_type = Society /\ obj.contract_duration # None
    THEN 1 + ToInt(obj.contract_duration)
    ELSE 0

\* The call generate_renewals_for_jobcard(jobcard) as it starts.
GenCall(j, obj, caller) ==
    [job |-> j, obj |-> obj, caller |-> caller, phase |-> "start", month |-> 0,
     created |-> <<>>, before |-> RenewalsOfJob(j)]

GenDone(g, created) ==
    [job |-> g.job, obj |-> g.obj, before |-> g.before, created |-> created]

\* The callers of generate_renewals_for_jobcard.
ViewCreate == "JobCardViewSet.create"
ViewUpdate == "JobCardViewSet.update"
ServiceCall == "RenewalService"

\* What the caller answers once generate_renewals_for_jobcard has returned
\* `created` or, with failed, has raised: the two views log the exception
\* and answer as if nothing happened; a direct caller sees it.
GenResponseFailing(g, created, failed) ==
    [op |-> g.caller, job |-> g.job,
     status |-> IF failed THEN "500"
                ELSE IF g.caller = ViewCreate THEN "201"
                ELSE IF g.caller = ViewUpdate THEN "200" ELSE "returned",
     count |-> Len(created), gen_failed |-> failed]

GenResponse(g, created, failed) ==
    [op |-> g.caller, job |-> g.job,
     status |-> IF g.caller = ViewCreate THEN "201"
                ELSE IF g.caller = ViewUpdate THEN "200"
                ELSE IF failed THEN "raised" ELSE "returned",
     count |-> Len(created), gen_failed |-> failed]

\* JobCardViewSet.create answering 400 to a ValidationError.
Rejected == [op |-> ViewCreate, job |-> 0, status |-> "400", count |-> 0, gen_failed |-> FALSE]

\* JobCardViewSet.create after the client is resolved to clientId:
\* JobCardService.create_jobcard's validation and save, then the call of
\* generate_renewals_for_jobcard.  A rejected job card changes nothing.
CreateJob(clientId, d) ==
    IF JobCardClean(d)
    THEN /\ Len(jobs) < MaxJobs
         /\ Len(renewals) + Needed(d) <= MaxRenewals
         /\ jobs' = Append(jobs, NewJob(Len(jobs) + 1, clientId, d))
         /\ gen' = GenCall(Len(jobs) + 1, NewJob(Len(jobs) + 1, clientId, d), ViewCreate)
         /\ out' = NoOut
    ELSE /\ UNCHANGED <<jobs, gen>>
         /\ out' = Rejected

\* JobCardViewSet.create with {"client": id, ...}
CreateJobCardForClient ==
    /\ gen = NoGenCall
    /\ \E cid \in 1..nextClientId, d \in EngineJobInputs :
         IF \E c \in clients : c.id = cid
         THEN CreateJob(cid, d)
         ELSE UNCHANGED <<jobs, gen>> /\ out' = Rejected
    /\ lastSaved' = NoSaved
    /\ UNCHANGED <<clients, nextClientId, renewals, now, lastGen, extraOps, probe>>
    /\ UNCHANGED <<pc, req, pending, res, local, inquiries>>

\* JobCardViewSet.create with {"client_data": {"mobile": raw, ...}, ...}:
\* Client.objects.get_or_create on the cleaned mobile, then the job card.
CreateJobCardWithClientData ==
    /\ gen = NoGenCall
    /\ \E raw \in EngineMobiles, d \in EngineJobInputs :
         LET m == CleanMobile(raw) IN
           IF ~IsTenDigits(m)
           THEN UNCHANGED <<clients, nextClientId, jobs, gen>> /\ out' = Rejected
           ELSE IF ClientExists(m)
           THEN /\ CreateJob(ClientGet(m).id, d)
                /\ UNCHANGED <<clients, nextClientId>>
           ELSE /\ clients' = clients \cup
                       {NewClient(nextClientId, [full_name |-> "", mobile |-> m, city |-> ""])}
                /\ nextClientId' = nextClientId + 1
                /\ CreateJob(nextClientId, d)
    /\ lastSaved' = NoSaved
    /\ UNCHANGED <<renewals, now, lastGen, extraOps, probe>>
    /\ UNCHANGED <<pc, req, pending, res, local, inquiries>>

\* RenewalService.generate_renewals_for_jobcard(jobcard) called again for a
\* job card that is already stored; the function takes the job card only.
GenerateForJobWithin(cap) ==
    /\ gen = NoGenCall
    /\ extraOps < cap
    /\ \E j \in DOMAIN jobs :
        /\ Len(renewals) + Needed(jobs[j]) <= MaxRenewals
        /\ gen' = GenCall(j, jobs[j], ServiceCall)
    /\ extraOps' = extraOps + 1
    /\ out' = NoOut
    /\ lastSaved' = NoSaved
    /\ UNCHANGED <<clients, nextClientId, jobs, renewals, now, lastGen, probe>>
    /\ UNCHANGED <<pc, req, pending, res, local, inquiries>>

GenerateForJob == GenerateForJobWithin(MaxExtraOps)

\* The request bodies of PATCH jobcards/<pk>/: the fields sent.  The
\* serializer accepts any choice of job_type and contract_duration, null
\* included, and any date.
Patches ==
    {[job_type |-> Society],
     [contract_duration |-> None],
     [job_type |-> Society, contract_duration |-> "3"],
     [next_service_date |-> Date(2025, 2, 2)]}

\* serializer.update: setattr for each validated field.
ApplyPatch(obj, patch) ==
    [f \in DOMAIN obj |-> IF f \in DOMAIN patch THEN patch[f] ELSE obj[f]]

\* JobCardViewSet.update: renewal_fields_changed
renewal_fields_changed_date_only(old, new) ==
    new.next_service_date # old.next_service_date

renewal_fields_changed(old, new) ==
    \/ new.next_service_date # old.next_service_date
    \/ new.contract_duration # old.contract_duration
    \/ new.job_type # old.job_type

\* JobCardViewSet.update: the serializer validates the fields and saves the
\* instance, JobCard.clean is not called; when a renewal field changed,
\* generate_renewals_for_jobcard(instance) is called.
UpdateJobCard ==
    /\ gen = NoGenCall
    /\ extraOps < MaxExtraOps
    /\ extraOps' = extraOps + 1
    /\ \E j \in DOMAIN jobs, patch \in Patches :
         LET instance == ApplyPatch(jobs[j], patch) IN
           /\ Len(renewals) + Needed(instance) <= MaxRenewals
           /\ jobs' = [jobs EXCEPT ![j] = instance]
           /\ IF renewal_fields_changed(jobs[j], instance)
              THEN /\ gen' = GenCall(j, instance, ViewUpdate)
                   /\ out' = NoOut
              ELSE /\ UNCHANGED gen
                   /\ out' = [op |-> ViewUpdate, job |-> j, status |-> "200",
                              count |-> 0, gen_failed |-> FALSE]
    /\ lastSaved' = NoSaved
    /\ UNCHANGED <<clients, nextClientId, renewals, now, lastGen, probe>>
    /\ UNCHANGED <<pc, req, pending, res, local, inquiries>>

\* timezone.make_aware(datetime.combine(jobcard.next_service_date, min.time()))
CustomerRenewalDateDayBefore(obj) == Midnight(MinusOneDay(obj.next_service_date))

CustomerRenewalDate(obj) == Midnight(obj.next_service_date)

\* The Customer branch with next_service_date set: one renewal, then return.
GenCustomer ==
    /\ gen.job # 0 /\ gen.phase = "start"
    /\ gen.obj.job_type = Customer /\ gen.obj.next_service_date # NoDate
    /\ renewals' = SaveNew(renewals,
                           NewRenewal(gen.job, CustomerRenewalDate(gen.obj),
                                      Contract, RemarkCustomer),
                           now)
    /\ lastSaved' = Saved(Len(renewals) + 1, gen.job)
    /\ lastGen' = GenDone(gen, <<Len(renewals) + 1>>)
    /\ out' = GenResponse(gen, <<Len(renewals) + 1>>, FALSE)
    /\ gen' = NoGenCall
    /\ UNCHANGED <<clients, nextClientId, jobs, now, extraOps, probe>>
    /\ UNCHANGED <<pc, req, pending, res, local, inquiries>>

\* Neither branch creates anything: return [].
GenNothing ==
    /\ gen.job # 0 /\ gen.phase = "start"
    /\ Needed(gen.obj) = 0
    /\ lastGen' = GenDone(gen, <<>>)
    /\ out' = GenResponse(gen, <<>>, FALSE)
    /\ gen' = NoGenCall
    /\ lastSaved' = NoSaved
    /\ UNCHANGED <<clients, nextClientId, jobs, renewals, now, extraOps, probe>>
    /\ UNCHANGED <<pc, req, pending, res, local, inquiries>>

\* The Society branch: contract_renewal.save()
GenContract ==
    /\ gen.job # 0 /\ gen.phase = "start"
    /\ gen.obj.job_type = Society /\ gen.obj.contract_duration # None
    /\ LET contract_months == ToInt(gen.obj.contract_duration)
           contract_end_date == relativedelta(gen.obj.schedule_date, contract_months)
       IN  renewals' = SaveNew(renewals,
                               NewRenewal(gen.job, Midnight(MinusOneDay(contract_end_date)),
                                          Contract, RemarkContract(contract_months)),
                               now)
    /\ lastSaved' = Saved(Len(renewals) + 1, gen.job)
    /\ gen' = [gen EXCEPT !.phase = "monthly", !.month = 1,
                          !.created = <<Len(renewals) + 1>>]
    /\ out' = NoOut
    /\ UNCHANGED <<clients, nextClientId, jobs, now, lastGen, extraOps, probe>>
    /\ UNCHANGED <<pc, req, pending, res, local, inquiries>>

\* The upper end of range(1, contract_months + 1).
LastMonthShort(contract_months) == contract_months - 1

LastMonth(contract_months) == contract_months

\* The Society branch: one turn of the loop, monthly_reminder.save(); the
\* call returns after the last turn.
GenMonthly ==
    /\ gen.job # 0 /\ gen.phase = "monthly"
    /\ LET contract_months == ToInt(gen.obj.contract_duration)
           monthly_date == relativedelta(gen.obj.schedule_date, gen.month)
           created == Append(gen.created, Len(renewals) + 1)
       IN
        /\ renewals' = SaveNew(renewals,
                               NewRenewal(gen.job, Midnight(MinusOneDay(monthly_date)),
                                          Monthly, RemarkMonthly(gen.month)),
                               now)
        /\ IF gen.month >= LastMonth(contract_months)
           THEN /\ lastGen' = GenDone(gen, created)
                /\ gen' = NoGenCall
                /\ out' = GenResponse(gen, created, FALSE)
           ELSE /\ gen' = [gen EXCEPT !.month = gen.month + 1, !.created = created]
                /\ out' = NoOut
                /\ UNCHANGED lastGen
    /\ lastSaved' = Saved(Len(renewals) + 1, gen.job)
    /\ UNCHANGED <<clients, nextClientId, jobs, now, extraOps, probe>>
    /\ UNCHANGED <<pc, req, pending, res, local, inquiries>>

\* generate_renewals_for_jobcard raises: a statement of the running call
\* fails in the database.  What was saved stays; the caller answers.
GenFail ==
    /\ gen.job # 0
    /\ extraOps < MaxExtraOps
    /\ extraOps' = extraOps + 1
    /\ out' = GenResponse(gen, gen.created, TRUE)
    /\ gen' = NoGenCall
    /\ lastSaved' = NoSaved
    /\ UNCHANGED <<clients, nextClientId, jobs, renewals, now, lastGen, probe>>
    /\ UNCHANGED <<pc, req, pending, res, local, inquiries>>

\* RenewalService.create_renewal: a renewal created by hand; the request may
\* carry any urgency_level.
ManualDues == {Midnight(Date(2025, 1, 30))}

CreateRenewal ==
    /\ Len(renewals) < MaxRenewals
    /\ extraOps < MaxExtraOps
    /\ extraOps' = extraOps + 1
    /\ \E j \in DOMAIN jobs, due \in ManualDues, level \in UrgencyLevels :
         renewals' = SaveNew(renewals,
                             [NewRenewal(j, due, Contract, RemarkManual)
                                 EXCEPT !.urgency_level = level],
                             now)
         /\ lastSaved' = Saved(Len(renewals) + 1, j)
    /\ out' = NoOut
    /\ UNCHANGED <<clients, nextClientId, jobs, now, gen, lastGen, probe>>
    /\ UNCHANGED <<pc, req, pending, res, local, inquiries>>

MarkCompletedOp == "mark_completed"

\* RenewalService.mark_completed(renewal_id): the Renewal rows afterwards,
\* for a stored renewal_id.
mark_completed(rs, renewal_id, t) ==
    SaveAll(rs, renewal_id, [rs[renewal_id] EXCEPT !.status = Completed], t)

\* RenewalViewSet.mark_completed: RenewalService.mark_completed(pk) for a
\* stored renewal or an id that is not stored; it answers 404 when the
\* service returned False.
MarkCompletedWithin(cap) ==
    /\ extraOps < cap
    /\ extraOps' = extraOps + 1
    /\ \E i \in 1..(Len(renewals) + 1) :
         IF i \in DOMAIN renewals
         THEN /\ renewals' = mark_completed(renewals, i, now)
              /\ lastSaved' = Saved(i, renewals[i].jobcard)
              /\ out' = [op |-> MarkCompletedOp, job |-> renewals[i].jobcard,
                         status |-> "200", count |-> 0, gen_failed |-> FALSE, renewal |-> i]
         ELSE /\ UNCHANGED renewals
              /\ lastSaved' = NoSaved
              /\ out' = [op |-> MarkCompletedOp, job |-> 0,
                         status |-> "404", count |-> 0, gen_failed |-> FALSE, renewal |-> i]
    /\ UNCHANGED <<clients, nextClientId, jobs, now, gen, lastGen, probe>>
    /\ UNCHANGED <<pc, req, pending, res, local, inquiries>>

MarkCompleted == MarkCompletedWithin(MaxExtraOps)

\* RenewalService.toggle_jobcard_pause(jobcard_id, is_paused): the JobCard
\* rows afterwards.
toggle_jobcard_pause_reset(js, jobcard_id, is_paused) ==
    [js EXCEPT ![jobcard_id].is_paused = is_paused, ![jobcard_id].contract_duration = None]

toggle_jobcard_pause(js, jobcard_id, is_paused) ==
    [js EXCEPT ![jobcard_id].is_paused = is_paused]

\* JobCardViewSet.toggle_pause / RenewalViewSet.toggle_pause
TogglePauseOp == "toggle_pause"

TogglePauseWithin(cap) ==
    /\ extraOps < cap
    /\ extraOps' = extraOps + 1
    /\ \E j \in DOMAIN jobs, is_paused \in BOOLEAN :
        /\ jobs' = toggle_jobcard_pause(jobs, j, is_paused)
        /\ out' = [op |-> TogglePauseOp, job |-> j, status |-> "200",
                   count |-> 0, gen_failed |-> FALSE]
    /\ lastSaved' = NoSaved
    /\ UNCHANGED <<clients, nextClientId, renewals, now, gen, lastGen, probe>>
    /\ UNCHANGED <<pc, req, pending, res, local, inquiries>>

TogglePause == TogglePauseWithin(MaxExtraOps)

\* ClientService.deactivate_client(client_id): the Client rows afterwards.
\* The row with that id, if any, is saved with is_active False.
deactivate_client_delete(cs, client_id) == {c \in cs : c.id # client_id}

deactivate_client(cs, client_id) ==
    {IF c.id = client_id THEN [c EXCEPT !.is_active = FALSE] ELSE c : c \in cs}

\* ClientViewSet.destroy: 204 when deactivate_client returned True, 404 when
\* it returned False.
Destroy == "ClientViewSet.destroy"

DeactivateClient ==
    /\ extraOps < MaxExtraOps
    /\ extraOps' = extraOps + 1
    /\ \E client_id \in 1..nextClientId :
        /\ clients' = deactivate_client(clients, client_id)
        /\ out' = [op |-> Destroy, job |-> 0,
                   status |-> IF \E c \in clients : c.id = client_id THEN "204" ELSE "404",
                   count |-> 0, gen_failed |-> FALSE, client |-> client_id]
    /\ lastSaved' = NoSaved
    /\ UNCHANGED <<nextClientId, jobs, renewals, now, gen, lastGen, probe>>
    /\ UNCHANGED <<pc, req, pending, res, local, inquiries>>

\* RenewalViewSet.update_urgency_levels: RenewalService.update_urgency_levels()
UpdateUrgencyLevels == "update_urgency_levels"

RecomputeAllDueWithin(cap) ==
    /\ extraOps < cap
    /\ extraOps' = extraOps + 1
    /\ LET done == update_urgency_levels(renewals, now)
       IN  /\ renewals' = done.renewals
           /\ out' = [op |-> UpdateUrgencyLevels, job |-> 0, status |-> "200",
                      count |-> done.updated_count, gen_failed |-> FALSE]
    /\ lastSaved' = NoSaved
    /\ UNCHANGED <<clients, nextClientId, jobs, now, gen, lastGen, probe>>
    /\ UNCHANGED <<pc, req, pending, res, local, inquiries>>

RecomputeAllDue == RecomputeAllDueWithin(MaxExtraOps)

\* Time passes.
Tick ==
    /\ now < Midnight(StartDate) + MaxTicks
    /\ now' = now + 1
    /\ lastSaved' = NoSaved
    /\ out' = NoOut
    /\ UNCHANGED <<clients, nextClientId, jobs, renewals, gen, lastGen, extraOps, probe>>
    /\ UNCHANGED <<pc, req, pending, res, local, inquiries>>

Next ==
    \/ CreateJobCardForClient
    \/ CreateJobCardWithClientData
    \/ GenerateForJob
    \/ UpdateJobCard
    \/ GenFail
    \/ GenCustomer
    \/ GenNothing
    \/ GenContract
    \/ GenMonthly
    \/ CreateRenewal
    \/ MarkCompleted
    \/ RecomputeAllDue
    \/ TogglePause
    \/ DeactivateClient
    \/ Tick

Spec == Init /\ [][Next]_vars

(***************************************************************************)
(* Renewal.update_urgency_level on its own: a renewal with any due         *)
(* instant, classified at any instant.                                     *)
(***************************************************************************)
InitClassify ==
    /\ clients = {}
    /\ nextClientId = 1
    /\ jobs = <<>>
    /\ renewals = <<>>
    /\ now = Midnight(StartDate)
    /\ gen = NoGenCall
    /\ lastGen = NoGenDone
    /\ lastSaved = NoSaved
    /\ extraOps = 0
    /\ out = NoOut
    /\ probe \in [due : 0..MaxProbe, at : 0..MaxProbe, urgency_level : {None}]
    /\ pc = [p \in Procs |-> "idle"]
    /\ req = [p \in Procs |-> NoReq]
    /\ pending = [p \in Procs |-> NoClient]
    /\ res = [p \in Procs |-> NoRes]
    /\ local = [p \in Procs |-> NoLocal]
    /\ inquiries = <<>>

Classify ==
    /\ probe.urgency_level = None
    /\ probe' = [probe EXCEPT !.urgency_level = update_urgency_level(probe.due, probe.at)]
    /\ UNCHANGED <<clients, nextClientId, jobs, pc, req, pending, res>>
    /\ UNCHANGED <<engineVars, local, inquiries>>

NextClassify == Classify

SpecClassify == InitClassify /\ [][NextClassify]_vars

(***************************************************************************)
(* Concurrent job card creation: JobCardService.create_jobcard for an      *)
(* existing client, one action per database statement.  No transaction     *)
(* spans the statements, so each is committed as it runs.                  *)
(***************************************************************************)
\* JobCard.code of an object constructed without a code: the empty string.
BlankCode == <<>>

\* The unique index on JobCard.code: a stored row holds the code.
CodeTaken(code) == \E j \in DOMAIN jobs : jobs[j].code = code

CreateJobCard == "create_jobcard(client)"

\* The job cards submitted: ones JobCard.clean accepts and one it rejects.
ConcurrentJobInputs ==
    {d \in EngineJobInputs : d.schedule_date = Date(2025, 1, 1) /\ d.price # ""}

InitJobs ==
    /\ clients = {NewClient(1, [full_name |-> "Asha", mobile |-> CleanMobile(RawPlain),
                                city |-> "Pune"])}
    /\ nextClientId = 2
    /\ jobs = <<>>
    /\ renewals = <<>>
    /\ now = Midnight(StartDate)
    /\ gen = NoGenCall
    /\ lastGen = NoGenDone
    /\ lastSaved = NoSaved
    /\ extraOps = 0
    /\ out = NoOut
    /\ probe = NoProbe
    /\ pc = [p \in Procs |-> "idle"]
    /\ req = [p \in Procs |-> NoReq]
    /\ pending = [p \in Procs |-> NoClient]
    /\ res = [p \in Procs |-> NoRes]
    /\ local = [p \in Procs |-> NoLocal]
    /\ inquiries = <<>>

\* create_jobcard({"client": 1, ...}) entered: the client is read.
JobBegin(p) ==
    /\ pc[p] = "idle"
    /\ \E d \in ConcurrentJobInputs :
         req' = [req EXCEPT ![p] = [kind |-> CreateJobCard, mobile |-> <<>>,
                                    full_name |-> "", city |-> "", client |-> 1, data |-> d]]
    /\ pc' = [pc EXCEPT ![p] = "job_clean"]
    /\ UNCHANGED <<clients, nextClientId, jobs, pending, res, probe>>
    /\ UNCHANGED <<engineVars, local, inquiries>>

\* jobcard.full_clean(): JobCard.clean, then validate_unique, which looks up
\* the object's code, the empty string, among the stored rows.
JobFullClean(p) ==
    /\ pc[p] = "job_clean"
    /\ IF ~JobCardClean(req[p].data) \/ CodeTaken(BlankCode)
       THEN /\ res' = [res EXCEPT ![p] = Failed("ValidationError")]
            /\ pc' = [pc EXCEPT ![p] = "done"]
       ELSE /\ pc' = [pc EXCEPT ![p] = "job_insert"]
            /\ UNCHANGED res
    /\ UNCHANGED <<clients, nextClientId, jobs, pending, req, probe>>
    /\ UNCHANGED <<engineVars, local, inquiries>>

\* JobCard.save, first statement: INSERT with the empty code.  The unique
\* index refuses it while another row holds the empty code, and
\* create_jobcard turns the IntegrityError into a ValidationError.
JobInsert(p) ==
    /\ pc[p] = "job_insert"
    /\ IF CodeTaken(BlankCode)
       THEN /\ res' = [res EXCEPT ![p] = Failed("IntegrityError")]
            /\ pc' = [pc EXCEPT ![p] = "done"]
            /\ UNCHANGED <<jobs, pending>>
       ELSE /\ Len(jobs) < MaxJobs
            /\ jobs' = Append(jobs, [NewJob(Len(jobs) + 1, req[p].client, req[p].data)
                                        EXCEPT !.code = BlankCode])
            /\ pending' = [pending EXCEPT ![p] = [NoClient EXCEPT !.id = Len(jobs) + 1]]
            /\ pc' = [pc EXCEPT ![p] = "job_code"]
            /\ UNCHANGED res
    /\ UNCHANGED <<clients, nextClientId, req, probe>>
    /\ UNCHANGED <<engineVars, local, inquiries>>

\* JobCard.save, second statement: UPDATE of code from the primary key.
JobStampCode(p) ==
    /\ pc[p] = "job_code"
    /\ jobs' = [jobs EXCEPT ![pending[p].id].code = JobCode(pending[p].id)]
    /\ res' = [res EXCEPT ![p] = [status |-> "ok", created |-> TRUE,
                                   client |-> pending[p].id, error |-> None]]
    /\ pending' = [pending EXCEPT ![p] = NoClient]
    /\ pc' = [pc EXCEPT ![p] = "done"]
    /\ UNCHANGED <<clients, nextClientId, req, probe>>
    /\ UNCHANGED <<engineVars, local, inquiries>>

NextJobs ==
    \E p \in Procs :
        \/ JobBegin(p)
        \/ JobFullClean(p)
        \/ JobInsert(p)
        \/ JobStampCode(p)

SpecJobs == InitJobs /\ [][NextJobs]_vars

(***************************************************************************)
(* RenewalService.get_upcoming_summary on its own: read over stored        *)
(* renewals due around the ends of its windows, Due and Completed, of      *)
(* paused and running job cards.                                           *)
(***************************************************************************)
MaxSummaryRows == 2

\* Due instants just before, at and just after now, now + 7 days and
\* now + 30 days.
SummaryDues ==
    LET t == Midnight(StartDate) IN
        {t - 1, t, t + 1,
         t + WeekDays * TicksPerDay, t + WeekDays * TicksPerDay + 1,
         t + MonthDays * TicksPerDay, t + MonthDays * TicksPerDay + 1}

\* Stored Renewal rows of job cards 1 and 2, saved at the instant of Init.
SummaryRows ==
    {[jobcard |-> j, due_date |-> due, status |-> st, renewal_type |-> Contract,
      urgency_level |-> update_urgency_level(due, Midnight(StartDate)),
      remarks |-> RemarkManual] :
        j \in 1..2, due \in SummaryDues, st \in {Due, Completed}}

SummaryJob(pk, paused) ==
    [NewJob(pk, 1, JobInput(Customer, None, Date(2025, 1, 1), NoDate, "Termite", "500"))
        EXCEPT !.is_paused = paused]

InitSummary ==
    /\ clients = {NewClient(1, [full_name |-> "Asha", mobile |-> CleanMobile(RawPlain),
                                city |-> "Pune"])}
    /\ nextClientId = 2
    /\ jobs \in {<<SummaryJob(1, a), SummaryJob(2, b)>> : a, b \in BOOLEAN}
    /\ renewals \in [1..MaxSummaryRows -> SummaryRows]
    /\ now = Midnight(StartDate)
    /\ gen = NoGenCall
    /\ lastGen = NoGenDone
    /\ lastSaved = NoSaved
    /\ extraOps = 0
    /\ out = NoOut
    /\ probe = NoProbe
    /\ pc = [p \in Procs |-> "idle"]
    /\ req = [p \in Procs |-> NoReq]
    /\ pending = [p \in Procs |-> NoClient]
    /\ res = [p \in Procs |-> NoRes]
    /\ local = [p \in Procs |-> NoLocal]
    /\ inquiries = <<>>

UpcomingSummary == "get_upcoming_summary"

\* RenewalService.get_upcoming_summary(include_paused) is called and returns.
ReadSummary ==
    /\ \E include_paused \in BOOLEAN :
         out' = [op |-> UpcomingSummary, job |-> 0, status |-> "returned", count |-> 0,
                 gen_failed |-> FALSE, include_paused |-> include_paused,
                 summary |-> get_upcoming_summary(include_paused)]
    /\ UNCHANGED <<clients, nextClientId, jobs, renewals, now, gen, lastGen, lastSaved,
                   extraOps, probe>>
    /\ UNCHANGED <<pc, req, pending, res, local, inquiries>>

NextSummary == ReadSummary

SpecSummary == InitSummary /\ [][NextSummary]_vars

(***************************************************************************)
(* Urgency recomputation and completion, one action per database           *)
(* statement: RenewalService.update_urgency_levels and mark_completed run  *)
(* by concurrent requests, with the calls Renewal.save makes to            *)
(* update_urgency_levels_for_jobcard and the saves those make in turn.     *)
(* Each statement commits on its own; the clock stands still.              *)
(***************************************************************************)
MaxUrgencyRows == 3

\* Stored Renewal rows of job card 1: already due or due in more than three
\* days, with the level stored when they were saved last.
UrgencyRows ==
    {[jobcard |-> 1, due_date |-> due, status |-> Due, renewal_type |-> Contract,
      urgency_level |-> level, remarks |-> RemarkManual] :
        due \in {Midnight(StartDate) - 1,
                 Midnight(StartDate) + UrgencyWindowDays * TicksPerDay + 1},
        level \in {Normal}}

\* The calls the requests make; renewal_id may be one that is not stored.
UrgencyRequests ==
    {[kind |-> k, mobile |-> <<>>, full_name |-> "", city |-> "", renewal_id |-> i] :
        k \in {MarkCompletedOp}, i \in 1..(MaxUrgencyRows + 1)}
    \cup {[kind |-> UpdateUrgencyLevels, mobile |-> <<>>, full_name |-> "", city |-> "",
           renewal_id |-> 0]}

InitUrgency ==
    /\ clients = {NewClient(1, [full_name |-> "Asha", mobile |-> CleanMobile(RawPlain),
                                city |-> "Pune"])}
    /\ nextClientId = 2
    /\ jobs = <<SummaryJob(1, FALSE)>>
    /\ renewals \in [1..MaxUrgencyRows -> UrgencyRows]
    /\ now = Midnight(StartDate)
    /\ gen = NoGenCall
    /\ lastGen = NoGenDone
    /\ lastSaved = NoSaved
    /\ extraOps = 0
    /\ out = NoOut
    /\ probe = NoProbe
    /\ pc = [p \in Procs |-> "idle"]
    /\ req = [p \in Procs |-> NoReq]
    /\ pending = [p \in Procs |-> NoClient]
    /\ res = [p \in Procs |-> NoRes]
    /\ local = [p \in Procs |-> NoLocal]
    /\ inquiries = <<>>

\* The objects a queryset yields when it is evaluated: the rows ids of rs as
\* stored at that moment, to be iterated.
Frame(rs, ids) == [loaded |-> [i \in ids |-> rs[i]], todo |-> ids]

\* The UPDATE of renewal.save(update_fields=['urgency_level']) on the loaded
\* object obj with primary key i: one column.
UpdateUrgencyColumnFromObject(rs, i, obj, t) ==
    [rs EXCEPT ![i] = [obj EXCEPT !.urgency_level = update_urgency_level(obj.due_date, t)]]

UpdateUrgencyColumn(rs, i, obj, t) ==
    [rs EXCEPT ![i].urgency_level = update_urgency_level(obj.due_date, t)]

\* The UPDATE of renewal.save() on the loaded object obj with primary key i:
\* every column, from the object.
UpdateAllColumns(rs, i, obj, t) ==
    [rs EXCEPT ![i] = [obj EXCEPT !.urgency_level = update_urgency_level(obj.due_date, t)]]

\* The Due renewals of job card j whose stored level is not the computed one.
StaleOfJob(rs, j, t) ==
    {i \in DueOfJob(rs, j) : rs[i].urgency_level # update_urgency_level(rs[i].due_date, t)}

UrgencyBegin(p) ==
    /\ pc[p] = "idle"
    /\ \E r \in UrgencyRequests :
        /\ req' = [req EXCEPT ![p] = r]
        /\ pc' = [pc EXCEPT ![p] = IF r.kind = UpdateUrgencyLevels THEN "select_all" ELSE "get"]
    /\ UNCHANGED <<clients, nextClientId, jobs, pending, res, probe, local, inquiries>>
    /\ UNCHANGED engineVars

\* update_urgency_levels: Renewal.objects.filter(status='Due') is evaluated.
SelectAllDue(p) ==
    /\ pc[p] = "select_all"
    /\ local' = [local EXCEPT ![p].stack = Append(@, Frame(renewals, AllDue(renewals)))]
    /\ pc' = [pc EXCEPT ![p] = "loop"]
    /\ UNCHANGED <<clients, nextClientId, jobs, req, pending, res, probe, inquiries>>
    /\ UNCHANGED engineVars

\* update_urgency_levels_for_jobcard(jobcard_id), called by Renewal.save:
\* Renewal.objects.filter(jobcard_id=jobcard_id, status='Due') is evaluated.
SelectDueOfJob(p) ==
    /\ pc[p] = "select_job"
    /\ local' = [local EXCEPT ![p].stack =
                    Append(@, Frame(renewals, DueOfJob(renewals, local[p].job)))]
    /\ pc' = [pc EXCEPT ![p] = "loop"]
    /\ UNCHANGED <<clients, nextClientId, jobs, req, pending, res, probe, inquiries>>
    /\ UNCHANGED engineVars

\* One turn of the for loop of the innermost running call: the next object's
\* level is computed and, when it differs from the loaded one, the object is
\* saved with update_fields=['urgency_level'], which calls
\* update_urgency_levels_for_jobcard.  With no object left the call returns,
\* to the save that made it or to the request.
LoopTurn(p) ==
    /\ pc[p] = "loop"
    /\ LET stack == local[p].stack
           depth == Len(stack)
           top == stack[depth]
       IN  IF top.todo = {}
           THEN /\ local' = [local EXCEPT ![p].stack = SubSeq(stack, 1, depth - 1)]
                /\ pc' = [pc EXCEPT ![p] = IF depth = 1 THEN "done" ELSE "loop"]
                /\ res' = [res EXCEPT ![p] = IF depth = 1 THEN [@ EXCEPT !.status = "ok"] ELSE @]
                /\ UNCHANGED renewals
           ELSE LET i == FirstByDueDate(top.loaded, top.todo)
                    obj == top.loaded[i]
                    rest == [stack EXCEPT ![depth].todo = top.todo \ {i}]
                IN  IF obj.urgency_level # update_urgency_level(obj.due_date, now)
                    THEN /\ renewals' = UpdateUrgencyColumn(renewals, i, obj, now)
                         /\ local' = [local EXCEPT ![p].stack = rest,
                                                   ![p].saves = @ + 1,
                                                   ![p].late = IF renewals[i].status = Due
                                                               THEN @ ELSE @ + 1,
                                                   ![p].job = obj.jobcard]
                         /\ pc' = [pc EXCEPT ![p] = "select_job"]
                         /\ UNCHANGED res
                    ELSE /\ local' = [local EXCEPT ![p].stack = rest]
                         /\ UNCHANGED <<renewals, pc, res>>
    /\ UNCHANGED <<clients, nextClientId, jobs, req, pending, probe, inquiries>>
    /\ UNCHANGED <<now, gen, lastGen, lastSaved, extraOps, out>>

\* mark_completed: Renewal.objects.get(id=renewal_id); Renewal.DoesNotExist
\* makes it return False.
GetRenewal(p) ==
    /\ pc[p] = "get"
    /\ IF req[p].renewal_id \in DOMAIN renewals
       THEN /\ local' = [local EXCEPT ![p].obj = renewals[req[p].renewal_id]]
            /\ pc' = [pc EXCEPT ![p] = "save"]
            /\ UNCHANGED res
       ELSE /\ res' = [res EXCEPT ![p] = [@ EXCEPT !.status = "False"]]
            /\ pc' = [pc EXCEPT ![p] = "done"]
            /\ UNCHANGED local
    /\ UNCHANGED <<clients, nextClientId, jobs, req, pending, probe, inquiries>>
    /\ UNCHANGED engineVars

\* mark_completed: renewal.status = 'Completed'; renewal.save(), which then
\* calls update_urgency_levels_for_jobcard.
SaveCompleted(p) ==
    /\ pc[p] = "save"
    /\ LET obj == [local[p].obj EXCEPT !.status = Completed]
           written == UpdateAllColumns(renewals, req[p].renewal_id, obj, now)
       IN  /\ renewals' = written
           /\ local' = [local EXCEPT ![p].job = obj.jobcard,
                                     ![p].stale = Cardinality(StaleOfJob(written, obj.jobcard, now))]
    /\ pc' = [pc EXCEPT ![p] = "select_job"]
    /\ UNCHANGED <<clients, nextClientId, jobs, req, pending, res, probe, inquiries>>
    /\ UNCHANGED <<now, gen, lastGen, lastSaved, extraOps, out>>

NextUrgency ==
    \E p \in Procs :
        \/ UrgencyBegin(p)
        \/ SelectAllDue(p)
        \/ SelectDueOfJob(p)
        \/ LoopTurn(p)
        \/ GetRenewal(p)
        \/ SaveCompleted(p)

SpecUrgency == InitUrgency /\ [][NextUrgency]_vars

(***************************************************************************)
(* The life of a job card's renewals: for one stored job card, generation, *)
(* completion, recomputation and pause / resume in any order, several      *)
(* times, while time passes.                                               *)
(***************************************************************************)
MaxStatusOps == 4

InitStatus ==
    /\ clients = {NewClient(1, [full_name |-> "Asha", mobile |-> CleanMobile(RawPlain),
                                city |-> "Pune"])}
    /\ nextClientId = 2
    /\ jobs \in {<<NewJob(1, 1, d)>> :
                    d \in {JobInput(Customer, None, Date(2025, 1, 1), Date(2025, 2, 1),
                                    "Termite", "500"),
                           JobInput(Society, "3", Date(2025, 1, 1), NoDate, "Termite", "500")}}
    /\ renewals = <<>>
    /\ now = Midnight(StartDate)
    /\ gen = NoGenCall
    /\ lastGen = NoGenDone
    /\ lastSaved = NoSaved
    /\ extraOps = 0
    /\ out = NoOut
    /\ probe = NoProbe
    /\ pc = [p \in Procs |-> "idle"]
    /\ req = [p \in Procs |-> NoReq]
    /\ pending = [p \in Procs |-> NoClient]
    /\ res = [p \in Procs |-> NoRes]
    /\ local = [p \in Procs |-> NoLocal]
    /\ inquiries = <<>>

NextStatus ==
    \/ GenerateForJobWithin(MaxStatusOps)
    \/ GenCustomer
    \/ GenContract
    \/ GenMonthly
    \/ MarkCompletedWithin(MaxStatusOps)
    \/ RecomputeAllDueWithin(MaxStatusOps)
    \/ TogglePauseWithin(MaxStatusOps)
    \/ Tick

SpecStatus == InitStatus /\ [][NextStatus]_vars

(***************************************************************************)
(* Concurrent writers of one JobCard row: RenewalService                   *)
(* toggle_jobcard_pause and JobCardService.update_payment_status, one      *)
(* action per database statement.  Each loads the row, sets one attribute  *)
(* and calls save(), which writes every column from the loaded object.     *)
(***************************************************************************)
UpdatePaymentStatus == "update_payment_status"

\* The calls the requests make, for the stored job card 1 or for an id that
\* is not stored; the payment status may be one that is not a choice.
JobWriteRequests ==
    {[kind |-> TogglePauseOp, mobile |-> <<>>, full_name |-> "", city |-> "",
      jobcard_id |-> j, is_paused |-> b, status |-> None] :
        j \in 1..2, b \in BOOLEAN}
    \cup {[kind |-> UpdatePaymentStatus, mobile |-> <<>>, full_name |-> "", city |-> "",
           jobcard_id |-> j, is_paused |-> FALSE, status |-> st] :
             j \in 1..2, st \in PaymentStatuses \cup {"Refunded"}}

InitJobWrites ==
    /\ clients = {NewClient(1, [full_name |-> "Asha", mobile |-> CleanMobile(RawPlain),
                                city |-> "Pune"])}
    /\ nextClientId = 2
    /\ jobs = <<SummaryJob(1, FALSE)>>
    /\ renewals = <<>>
    /\ now = Midnight(StartDate)
    /\ gen = NoGenCall
    /\ lastGen = NoGenDone
    /\ lastSaved = NoSaved
    /\ extraOps = 0
    /\ out = NoOut
    /\ probe = NoProbe
    /\ pc = [p \in Procs |-> "idle"]
    /\ req = [p \in Procs |-> NoReq]
    /\ pending = [p \in Procs |-> NoClient]
    /\ res = [p \in Procs |-> NoRes]
    /\ local = [p \in Procs |-> NoLocal]
    /\ inquiries = <<>>

JobWriteBegin(p) ==
    /\ pc[p] = "idle"
    /\ \E r \in JobWriteRequests : req' = [req EXCEPT ![p] = r]
    /\ pc' = [pc EXCEPT ![p] = "job_get"]
    /\ UNCHANGED <<clients, nextClientId, jobs, pending, res, probe, local, inquiries>>
    /\ UNCHANGED engineVars

\* jobcard = JobCard.objects.get(id=jobcard_id); JobCard.DoesNotExist makes
\* either function return False, and update_payment_status also returns
\* False, writing nothing, for a status that is not a choice.
JobGet(p) ==
    /\ pc[p] = "job_get"
    /\ IF \/ req[p].jobcard_id \notin DOMAIN jobs
          \/ (req[p].kind = UpdatePaymentStatus /\ req[p].status \notin PaymentStatuses)
       THEN /\ res' = [res EXCEPT ![p] = [@ EXCEPT !.status = "False"]]
            /\ pc' = [pc EXCEPT ![p] = "done"]
            /\ UNCHANGED local
       ELSE /\ local' = [local EXCEPT ![p].obj = jobs[req[p].jobcard_id]]
            /\ pc' = [pc EXCEPT ![p] = "job_save"]
            /\ UNCHANGED res
    /\ UNCHANGED <<clients, nextClientId, jobs, req, pending, probe, inquiries>>
    /\ UNCHANGED engineVars

\* jobcard.is_paused = is_paused (or jobcard.payment_status = status);
\* jobcard.save(): the UPDATE of every column from the loaded object.
JobSave(p) ==
    /\ pc[p] = "job_save"
    /\ jobs' = [jobs EXCEPT ![req[p].jobcard_id] =
                   IF req[p].kind = TogglePauseOp
                   THEN [local[p].obj EXCEPT !.is_paused = req[p].is_paused]
                   ELSE [local[p].obj EXCEPT !.payment_status = req[p].status]]
    /\ res' = [res EXCEPT ![p] = [@ EXCEPT !.status = "True"]]
    /\ pc' = [pc EXCEPT ![p] = "done"]
    /\ UNCHANGED <<clients, nextClientId, req, pending, probe, local, inquiries>>
    /\ UNCHANGED engineVars

NextJobWrites ==
    \E p \in Procs :
        \/ JobWriteBegin(p)
        \/ JobGet(p)
        \/ JobSave(p)

SpecJobWrites == InitJobWrites /\ [][NextJobWrites]_vars

(***************************************************************************)
(* InquiryService.convert_to_jobcard, one action per statement.  The       *)
(* function runs under transaction.atomic: its writes are seen by its own  *)
(* later statements, and an exception leaving it undoes them.  The calls   *)
(* are taken one after another.                                            *)
(***************************************************************************)
ConvertOp == "convert_to_jobcard"

\* Inquiry.InquiryStatus values a stored inquiry starts from, and CONVERTED.
InquiryNew == "New"
Converted == "Converted"

\* The stored inquiries: the mobile is one a client already has, one too
\* short for a client, or one no client has.
InquiryRows ==
    [name : Names,
     mobile : {RawPlain, RawShort, CleanMobile(RawOther)},
     service_interest : {"", "Termite"},
     city : {"Pune"},
     status : {InquiryNew}]

\* pk and request.data: client_id 0 stands for an absent client_id; inquiry
\* 2 and client 9 are not stored.
ConvertRequests ==
    [kind : {ConvertOp}, mobile : {<<>>}, full_name : {""}, city : {""},
     inquiry_id : 1..2, client_id : {0, 1, 9}, price : {"", "500"}]

InitConvert ==
    /\ clients = {NewClient(1, [full_name |-> "Asha", mobile |-> CleanMobile(RawPlain),
                                city |-> "Pune"])}
    /\ nextClientId = 2
    /\ jobs = <<>>
    /\ renewals = <<>>
    /\ now = Midnight(StartDate)
    /\ gen = NoGenCall
    /\ lastGen = NoGenDone
    /\ lastSaved = NoSaved
    /\ extraOps = 0
    /\ out = NoOut
    /\ probe = NoProbe
    /\ pc = [p \in Procs |-> "idle"]
    /\ req = [p \in Procs |-> NoReq]
    /\ pending = [p \in Procs |-> NoClient]
    /\ res = [p \in Procs |-> NoRes]
    /\ local = [p \in Procs |-> NoLocal]
    /\ inquiries \in {<<i>> : i \in InquiryRows}

Rows == [clients |-> clients, jobs |-> jobs, inquiries |-> inquiries]

\* transaction.atomic leaving on an exception: the rows after it, given the
\* rows at entry and the rows the statements have produced.
atomic_exit_keeping(entry, written) == written

atomic_exit(entry, written) == entry

\* An exception leaves convert_to_jobcard; created keeps whether the call
\* had inserted a client.
ConvertRaise(p, e) ==
    /\ LET back == atomic_exit(local[p].savepoint, Rows) IN
         /\ clients' = back.clients
         /\ jobs' = back.jobs
         /\ inquiries' = back.inquiries
    /\ res' = [res EXCEPT ![p] = [Failed(e) EXCEPT !.created = res[p].created]]
    /\ pc' = [pc EXCEPT ![p] = "done"]

\* The error create_client raises for the data, None when it accepts them:
\* the existence check, the required fields, the mobile format, full_clean.
CreateClientError(data) ==
    IF ClientExists(data.mobile) THEN "AlreadyExists"
    ELSE IF data.full_name = "" \/ data.mobile = <<>> \/ data.city = "" THEN "RequiredFieldMissing"
    ELSE IF ~IsTenDigits(data.mobile) THEN "InvalidInput"
    ELSE IF NameLen(data.full_name) < 2 THEN "InvalidInput"
    ELSE None

\* jobcard_data: the fields of the JobCard built for the inquiry.
ConvertJobData(inquiry, r) ==
    [job_type |-> Customer,
     contract_duration |-> None,
     schedule_date |-> StartDate,
     next_service_date |-> NoDate,
     service_type |-> inquiry.service_interest,
     price |-> r.price]

ConvertBegin(p) ==
    /\ pc[p] = "idle"
    /\ \A q \in Procs : pc[q] \in {"idle", "done"}
    /\ \E r \in ConvertRequests : req' = [req EXCEPT ![p] = r]
    /\ local' = [local EXCEPT ![p].savepoint =
                    [clients |-> clients, jobs |-> jobs, inquiries |-> inquiries,
                     nextClientId |-> nextClientId]]
    /\ pc' = [pc EXCEPT ![p] = "cv_inquiry"]
    /\ UNCHANGED <<clients, nextClientId, jobs, pending, res, probe, inquiries>>
    /\ UNCHANGED engineVars

\* inquiry = Inquiry.objects.get(id=inquiry_id)
ConvertGetInquiry(p) ==
    /\ pc[p] = "cv_inquiry"
    /\ IF req[p].inquiry_id \in DOMAIN inquiries
       THEN /\ local' = [local EXCEPT ![p].obj = inquiries[req[p].inquiry_id]]
            /\ pc' = [pc EXCEPT ![p] = "cv_client"]
            /\ UNCHANGED <<clients, jobs, inquiries, res>>
       ELSE /\ ConvertRaise(p, "InquiryNotFound")
            /\ UNCHANGED local
    /\ UNCHANGED <<nextClientId, req, pending, probe>>
    /\ UNCHANGED engineVars

\* Client.objects.get(id=client_id) when a client_id was given, else
\* ClientService.get_or_create_client with the inquiry's name, mobile, city.
ConvertResolveClient(p) ==
    /\ pc[p] = "cv_client"
    /\ LET inquiry == local[p].obj
           data == [full_name |-> inquiry.name,
                    mobile |-> CleanMobile(inquiry.mobile),
                    city |-> IF inquiry.city = "" THEN "Unknown" ELSE inquiry.city]
       IN
         IF req[p].client_id # 0
         THEN IF \E c \in clients : c.id = req[p].client_id
              THEN /\ res' = [res EXCEPT ![p] =
                                Found(CHOOSE c \in clients : c.id = req[p].client_id)]
                   /\ pc' = [pc EXCEPT ![p] = "cv_job"]
                   /\ UNCHANGED <<clients, nextClientId, jobs, inquiries>>
              ELSE /\ ConvertRaise(p, "ClientDoesNotExist")
                   /\ UNCHANGED nextClientId
         ELSE IF ClientExists(data.mobile)
         THEN /\ res' = [res EXCEPT ![p] = Found(ClientGet(data.mobile))]
              /\ pc' = [pc EXCEPT ![p] = "cv_job"]
              /\ UNCHANGED <<clients, nextClientId, jobs, inquiries>>
         ELSE IF CreateClientError(data) # None
         THEN /\ ConvertRaise(p, CreateClientError(data))
              /\ UNCHANGED nextClientId
         ELSE /\ clients' = clients \cup {NewClient(nextClientId, data)}
              /\ nextClientId' = nextClientId + 1
              /\ res' = [res EXCEPT ![p] = Created(NewClient(nextClientId, data))]
              /\ pc' = [pc EXCEPT ![p] = "cv_job"]
              /\ UNCHANGED <<jobs, inquiries>>
    /\ UNCHANGED <<req, pending, probe, local>>
    /\ UNCHANGED engineVars

\* jobcard = JobCard(**jobcard_data); jobcard.full_clean(); jobcard.save()
ConvertSaveJob(p) ==
    /\ pc[p] = "cv_job"
    /\ LET d == ConvertJobData(local[p].obj, req[p]) IN
         IF JobCardClean(d)
         THEN /\ jobs' = Append(jobs, NewJob(Len(jobs) + 1, res[p].client, d))
              /\ pc' = [pc EXCEPT ![p] = "cv_status"]
              /\ UNCHANGED <<clients, inquiries, res>>
         ELSE ConvertRaise(p, "InvalidInput")
    /\ UNCHANGED <<nextClientId, req, pending, probe, local>>
    /\ UNCHANGED engineVars

\* inquiry.status = CONVERTED; inquiry.save(); return jobcard: the
\* transaction commits.
ConvertSaveInquiry(p) ==
    /\ pc[p] = "cv_status"
    /\ inquiries' = [inquiries EXCEPT ![req[p].inquiry_id] =
                        [local[p].obj EXCEPT !.status = Converted]]
    /\ pc' = [pc EXCEPT ![p] = "done"]
    /\ UNCHANGED <<clients, nextClientId, jobs, req, pending, res, probe, local>>
    /\ UNCHANGED engineVars

NextConvert ==
    \E p \in Procs :
        \/ ConvertBegin(p)
        \/ ConvertGetInquiry(p)
        \/ ConvertResolveClient(p)
        \/ ConvertSaveJob(p)
        \/ ConvertSaveInquiry(p)

SpecConvert == InitConvert /\ [][NextConvert]_vars

(***************************************************************************)
(* Properties.                                                             *)
(***************************************************************************)
NormalizedMobiles == {CleanMobile(raw) : raw \in RawMobiles}

\* The calls made so far with a contact number that normalizes to m.
Callers(m) == {p \in Procs : req[p].kind # None /\ CleanMobile(req[p].mobile) = m}

\* A find-or-create call whose arguments pass validation.
ValidFindOrCreate(r) ==
    /\ r.kind \in FindOrCreateKinds
    /\ IsTenDigits(CleanMobile(r.mobile))
    /\ r.full_name # ""
    /\ (r.kind = CreateOrGet => r.city # "")

RowsFor(m) == {c \in clients : CleanMobile(c.mobile) = m}

\* C1: when two or more find-or-create calls (get_or_create_client,
\* create_or_get_client) were made with contact numbers that normalize to the
\* same ten digits, no other call used that number, and all of them have
\* finished, then exactly one Client row holds the number and exactly one of
\* the calls returned created = True.
C1_OneRowOneCreator ==
    \A m \in NormalizedMobiles :
        ( /\ Cardinality(Callers(m)) >= 2
          /\ \A p \in Callers(m) : ValidFindOrCreate(req[p]) /\ pc[p] = "done" )
        => /\ Cardinality(RowsFor(m)) = 1
           /\ Cardinality({p \in Callers(m) : res[p].status = "ok" /\ res[p].created}) = 1

\* C1 witness: two calls with the number written differently raced, both past
\* the locked lookup; one created the row and the other lost at the INSERT.
C1_RaceSettled ==
    \E p, q \in Procs :
        /\ p # q
        /\ req[p].mobile = RawPlain /\ req[q].mobile = RawFormatted
        /\ ValidFindOrCreate(req[p]) /\ ValidFindOrCreate(req[q])
        /\ pc[p] = "done" /\ pc[q] = "done"
        /\ res[p].status = "ok" /\ res[p].created
        /\ res[q].error \in {"IntegrityError", "TransactionManagementError"}
        /\ Cardinality(RowsFor(CleanMobile(RawPlain))) = 1

\* C2: a find-or-create call with valid arguments never ends in an error:
\* when another transaction commits the same number after the call's locked
\* lookup found nothing, the call returns the existing row, created = False.
C2_ConflictNeverSurfaces ==
    \A p \in Procs :
        (pc[p] = "done" /\ ValidFindOrCreate(req[p]))
        => (res[p].status = "ok" /\ \E c \in clients : c.id = res[p].client)

\* C3: no two committed Client rows have the same normalized contact number.
C3_UniqueMobile ==
    \A c1, c2 \in clients :
        CleanMobile(c1.mobile) = CleanMobile(c2.mobile) => c1 = c2

\* C3 witness: create_client and the client_data path of create_jobcard were
\* run with the same number, differently written; the unique index refused
\* the second INSERT and one row exists.
C3_IndexRefusedDuplicate ==
    \E p, q \in Procs :
        /\ req[p].kind = JobCardPath /\ req[q].kind = CreateClient
        /\ req[p].mobile # req[q].mobile
        /\ CleanMobile(req[p].mobile) = CleanMobile(req[q].mobile)
        /\ pc[p] = "done" /\ pc[q] = "done"
        /\ res[q].error = "IntegrityError"
        /\ Cardinality(clients) = 1

\* C4: a call of generate_renewals_for_jobcard for a job card that already
\* has renewals creates no renewal.
C4_SecondCallCreatesNothing ==
    (lastGen.job # 0 /\ lastGen.before # {}) => lastGen.created = <<>>

\* C5: while a call of generate_renewals_for_jobcard runs for a Society job
\* card, the stored renewals of that call are either none or all 1 + N.
C5_BatchVisibleAtomically ==
    (gen.job # 0 /\ gen.obj.job_type = Society)
    => Len(gen.created) \in {0, Needed(gen.obj)}

\* C6: for a Society job card with contract duration N and no renewals, the
\* call creates 1 + N renewals: first a Contract renewal due one day before
\* schedule_date + N months, then for k = 1..N a Monthly reminder due one day
\* before schedule_date + k months; with schedule_date 2025-01-01 and N = 3
\* the reminders are due 2025-01-31, 2025-02-28, 2025-03-31 and the Contract
\* renewal 2025-03-31.
C6_SocietySchedule ==
    (/\ lastGen.job # 0 /\ lastGen.obj.job_type = Society /\ lastGen.before = {}
     /\ lastGen.obj.contract_duration \in ContractDurations)
    => LET n == ToInt(lastGen.obj.contract_duration)
           start == lastGen.obj.schedule_date
           made == lastGen.created
       IN  /\ Len(made) = 1 + n
           /\ \A k \in 1..Len(made) : renewals[made[k]].jobcard = lastGen.job
           /\ renewals[made[1]].renewal_type = Contract
           /\ renewals[made[1]].due_date = Midnight(relativedelta(start, n)) - TicksPerDay
           /\ \A k \in 1..n :
                /\ renewals[made[1 + k]].renewal_type = Monthly
                /\ renewals[made[1 + k]].due_date
                       = Midnight(relativedelta(start, k)) - TicksPerDay
           /\ (start = Date(2025, 1, 1) /\ n = 3 =>
                /\ renewals[made[1]].due_date = Midnight(Date(2025, 3, 31))
                /\ renewals[made[2]].due_date = Midnight(Date(2025, 1, 31))
                /\ renewals[made[3]].due_date = Midnight(Date(2025, 2, 28))
                /\ renewals[made[4]].due_date = Midnight(Date(2025, 3, 31)))

\* C6 witness: a six-month Society job card without renewals was generated:
\* seven renewals.
C6_SixMonthsGenerated ==
    /\ lastGen.job # 0 /\ lastGen.obj.job_type = Society /\ lastGen.before = {}
    /\ lastGen.obj.contract_duration = "6"
    /\ Len(lastGen.created) = 7

\* C7: for a Customer job card without renewals, the call creates exactly one
\* renewal, of type Contract and due at midnight of next_service_date, when
\* next_service_date is set, and none when it is not.
C7_CustomerSchedule ==
    (lastGen.job # 0 /\ lastGen.obj.job_type = Customer /\ lastGen.before = {})
    => IF lastGen.obj.next_service_date # NoDate
       THEN /\ Len(lastGen.created) = 1
            /\ renewals[lastGen.created[1]].jobcard = lastGen.job
            /\ renewals[lastGen.created[1]].renewal_type = Contract
            /\ renewals[lastGen.created[1]].due_date
                   = ToOrdinal(lastGen.obj.next_service_date) * TicksPerDay
       ELSE lastGen.created = <<>>

\* C7 witness: a Customer job card with next_service_date 2025-02-01 and no
\* renewals was generated: one renewal due 2025-02-01 00:00.
C7_CustomerGenerated ==
    /\ lastGen.job # 0 /\ lastGen.obj.job_type = Customer /\ lastGen.before = {}
    /\ lastGen.obj.next_service_date = Date(2025, 2, 1)
    /\ Len(lastGen.created) = 1
    /\ renewals[lastGen.created[1]].due_date = Midnight(Date(2025, 2, 1))

\* C8: the level update_urgency_level computes is High when due <= now,
\* Medium when now < due <= now + 3 days, and Normal otherwise.
C8_ClassifyTiers ==
    probe.urgency_level # None
    => /\ (probe.due <= probe.at => probe.urgency_level = High)
       /\ (probe.at < probe.due /\ probe.due <= probe.at + 3 * TicksPerDay
              => probe.urgency_level = Medium)
       /\ (probe.due > probe.at + 3 * TicksPerDay => probe.urgency_level = Normal)

\* C8 witness: a renewal due exactly now was classified High.
C8_DueNowIsHigh ==
    probe.urgency_level = High /\ probe.due = probe.at

\* C9: the urgency counts of get_upcoming_summary and the urgency_level filter
\* of the renewal list agree with update_urgency_level(due, now) for every
\* Due renewal, at whatever time they are read.
C9_ReadsUseCurrentTier ==
    LET summary == get_upcoming_summary(FALSE)
        listed == get_active_renewals(FALSE)
        Current(i) == update_urgency_level(renewals[i].due_date, now)
    IN  /\ summary.high_urgency = Cardinality({i \in listed : Current(i) = High})
        /\ summary.medium_urgency = Cardinality({i \in listed : Current(i) = Medium})
        /\ summary.normal_urgency = Cardinality({i \in listed : Current(i) = Normal})
        /\ \A level \in UrgencyLevels : \A i \in ListByUrgency(level, FALSE) :
               renewals[i].status = Due => Current(i) = level

\* C10: when a save of a renewal of job card J has just completed, the saved
\* renewal and every Due renewal of J store the level
\* update_urgency_level(due, now).
C10_SaveLeavesJobCurrent ==
    lastSaved.id # 0
    => /\ renewals[lastSaved.id].urgency_level
              = update_urgency_level(renewals[lastSaved.id].due_date, now)
       /\ \A i \in DueOfJob(renewals, lastSaved.jobcard) :
              renewals[i].urgency_level = update_urgency_level(renewals[i].due_date, now)

\* C10 witness: a renewal was marked completed at the instant a Due sibling
\* of the same job card falls due, and the sibling is stored High.
C10_SiblingRefreshed ==
    /\ lastSaved.id # 0
    /\ renewals[lastSaved.id].status = Completed
    /\ \E i \in DueOfJob(renewals, lastSaved.jobcard) :
          /\ i # lastSaved.id
          /\ renewals[i].due_date = now
          /\ renewals[i].urgency_level = High

\* C11: the count update_urgency_levels returns is the number of renewals
\* whose stored level the run changed, and running it again at the same
\* instant with no write in between returns 0 and changes no row.
C11_CountsChangesAndIdempotent ==
    /\ [][(extraOps' # extraOps /\ out'.op = UpdateUrgencyLevels)
            => out'.count = Cardinality({i \in DOMAIN renewals :
                                renewals'[i].urgency_level # renewals[i].urgency_level})]_vars
    /\ [](out.op = UpdateUrgencyLevels
            => update_urgency_levels(renewals, now)
                   = [renewals |-> renewals, updated_count |-> 0])

\* C11 witness: a run that changed the level of two renewals and returned 2.
C11_TwoChanged ==
    /\ out.op = UpdateUrgencyLevels
    /\ out.count = 2

\* The Renewal rows without those of job card j.
WithoutJob(rows, j) == [i \in {k \in DOMAIN rows : rows[k].jobcard # j} |-> rows[i]]

\* C12: while job card j is paused, get_upcoming_summary(False) returns what
\* it would return if j had no renewals at all, and get_upcoming_summary(True)
\* returns what it would return if j were not paused.
C12_PausedJobOutOfSummary ==
    \A j \in DOMAIN jobs :
        jobs[j].is_paused
        => /\ get_upcoming_summary(FALSE)
                  = SummaryOn(WithoutJob(renewals, j), jobs, now, FALSE)
           /\ get_upcoming_summary(TRUE)
                  = SummaryOn(renewals, toggle_jobcard_pause(jobs, j, FALSE), now, TRUE)

\* C12 witness: the only job card, with Due renewals, has just been paused:
\* the summary without paused jobs is all zeros, the one with them is not.
C12_PausedWithRenewals ==
    /\ out.op = TogglePauseOp
    /\ Len(jobs) = 1 /\ jobs[1].is_paused
    /\ get_upcoming_summary(FALSE).due_this_month = 0
    /\ get_upcoming_summary(FALSE).medium_urgency = 0
    /\ get_upcoming_summary(TRUE).due_this_month >= 1
    /\ get_upcoming_summary(TRUE).medium_urgency >= 1

\* C13: the active endpoint, for every value of its urgency_level parameter,
\* and the default renewal list return no renewal of a paused job card.
C13_ActiveListsHidePaused ==
    /\ \A level \in UrgencyLevels \cup {None} :
          \A i \in active(level) : ~jobs[renewals[i].jobcard].is_paused
    /\ \A i \in RenewalList(FALSE) : ~jobs[renewals[i].jobcard].is_paused

\* C14: a toggle_jobcard_pause step leaves every Renewal row as it was,
\* creates and deletes none, and changes no JobCard field but is_paused.
C14_PauseTouchesOnlyFlag ==
    [][(extraOps' # extraOps /\ out'.op = TogglePauseOp)
        => /\ renewals' = renewals
           /\ DOMAIN jobs' = DOMAIN jobs
           /\ \A j \in DOMAIN jobs :
                 [jobs'[j] EXCEPT !.is_paused = jobs[j].is_paused] = jobs[j]]_vars

\* C14 witness: a Society job card with all its renewals stored was paused.
C14_PausedSociety ==
    /\ out.op = TogglePauseOp
    /\ jobs[out.job].is_paused
    /\ jobs[out.job].job_type = Society
    /\ Cardinality(RenewalsOfJob(out.job)) = 4

\* C15: generate_renewals_for_jobcard never returns normally for a Society
\* job card without contract_duration.
C15_MissingLengthNeverReturns ==
    ~(/\ lastGen.job # 0
      /\ lastGen.obj.job_type = Society
      /\ lastGen.obj.contract_duration = None)

\* C16: when generate_renewals_for_jobcard has raised inside
\* JobCardViewSet.create, the answer is 201 and the job card is stored.
C16_CreateSurvivesGenerationFailure ==
    (out.op = ViewCreate /\ out.gen_failed)
    => /\ out.status = "201"
       /\ out.job \in DOMAIN jobs
       /\ jobs[out.job].code = JobCode(out.job)

\* C16 witness: the generation for a new Society job card failed after its
\* contract renewal was saved, and the creation was answered.
C16_FailedAfterFirstSave ==
    /\ out.op = ViewCreate /\ out.gen_failed
    /\ out.job \in DOMAIN jobs
    /\ jobs[out.job].job_type = Society
    /\ out.count = 1

\* C17: every stored Society job card has a contract_duration of 3, 6 or 12.
C17_SocietyHasDuration ==
    \A j \in DOMAIN jobs :
        jobs[j].job_type = Society => jobs[j].contract_duration \in ContractDurations

\* C18: a create_jobcard call whose job card JobCard.clean accepts never
\* ends in an error, and once every call has ended each stored job card has
\* a code of its own.
C18_ConcurrentCreationsSucceed ==
    /\ \A p \in Procs :
          (pc[p] = "done" /\ req[p].kind = CreateJobCard /\ JobCardClean(req[p].data))
          => res[p].status = "ok"
    /\ (\A p \in Procs : pc[p] \in {"idle", "done"})
          => \A j, k \in DOMAIN jobs :
                /\ jobs[j].code # BlankCode
                /\ (jobs[j].code = jobs[k].code => j = k)

\* A find-or-create call (the client_data path of create_jobcard included)
\* whose number, without spaces, hyphens and parentheses, is not ten digits.
BadNumber(r) ==
    /\ r.kind \in FindOrCreateKinds \cup {JobCardPath}
    /\ LET m == SelectSeq(r.mobile, LAMBDA c : c \notin {" ", "-", "(", ")"})
       IN  Len(m) # 10 \/ \E k \in 1..Len(m) : m[k] \notin Digits

C20_MissingFieldOnlyOnCreate ==
    /\ [](\A p \in Procs :
            (/\ pc[p] = "done"
             /\ req[p].kind \in FindOrCreateKinds
             /\ ~BadNumber(req[p])
             /\ (req[p].full_name = "" \/ req[p].city = ""))
            => (res[p].status = "ok" => ~res[p].created))
    /\ [][\A p \in Procs :
            (/\ pc[p] # "done" /\ pc'[p] = "done"
             /\ req[p].kind \in FindOrCreateKinds
             /\ res'[p].error = "RequiredFieldMissing")
            => ~ClientExists(CleanMobile(req[p].mobile))]_vars

\* C21: a ClientViewSet.destroy step removes no Client row: for a stored id it
\* answers 204 and changes only that row's is_active, to False; for an unknown
\* id it answers 404 and changes no row; either way every JobCard and Renewal
\* row is left as it was.
C21_DestroyOnlyDeactivates ==
    [][(extraOps' # extraOps /\ out'.op = Destroy)
        => /\ jobs' = jobs
           /\ renewals' = renewals
           /\ IF \E c \in clients : c.id = out'.client
              THEN /\ out'.status = "204"
                   /\ Cardinality(clients') = Cardinality(clients)
                   /\ \A c \in clients :
                         IF c.id = out'.client
                         THEN [c EXCEPT !.is_active = FALSE] \in clients'
                         ELSE c \in clients'
              ELSE /\ out'.status = "404"
                   /\ clients' = clients]_vars

\* C21 witness: a client with a job card and a renewal of it was deleted
\* through the API and is stored inactive, number and job card in place.
C21_DeactivatedWithJobs ==
    /\ out.op = Destroy /\ out.status = "204"
    /\ \E c \in clients :
          /\ c.id = out.client /\ ~c.is_active
          /\ c.mobile = CleanMobile(RawFormatted)
          /\ \E j \in DOMAIN jobs : jobs[j].client = c.id /\ RenewalsOfJob(j) # {}

Counted(include_paused) ==
    {i \in DOMAIN renewals :
        /\ renewals[i].status = Due
        /\ (include_paused \/ ~jobs[renewals[i].jobcard].is_paused)}

\* C23: get_upcoming_summary(include_paused) writes nothing and returns, over
\* the Due renewals (of unpaused job cards unless include_paused),
\* due_this_week = how many have now <= due <= now + 7 days, due_this_month =
\* how many have now <= due <= now + 30 days, overdue = how many have
\* due < now; so due_this_week <= due_this_month, and overdue and
\* due_this_week together count no renewal twice.
C23_SummaryWindows ==
    /\ [](out.op = UpcomingSummary
            => LET S == Counted(out.include_paused)
                   Count(lo, hi) ==
                       Cardinality({i \in S : lo <= renewals[i].due_date
                                              /\ renewals[i].due_date <= hi})
               IN  /\ out.summary.due_this_week = Count(now, now + 7 * TicksPerDay)
                   /\ out.summary.due_this_month = Count(now, now + 30 * TicksPerDay)
                   /\ out.summary.overdue
                          = Cardinality({i \in S : renewals[i].due_date < now})
                   /\ out.summary.due_this_week <= out.summary.due_this_month
                   /\ out.summary.overdue + out.summary.due_this_week <= Cardinality(S))
    /\ [][out'.op = UpcomingSummary
            => /\ renewals' = renewals /\ jobs' = jobs /\ clients' = clients
               /\ now' = now]_vars

\* C23 witness: the summary was read without paused job cards over two Due
\* renewals of a running job card, one due exactly now + 7 days and one
\* overdue by a tick: 1 this week, 1 this month, 1 overdue.
C23_EdgeOfWeekCounted ==
    /\ out.op = UpcomingSummary /\ ~out.include_paused
    /\ \A i \in DOMAIN renewals :
          renewals[i].status = Due /\ ~jobs[renewals[i].jobcard].is_paused
    /\ renewals[1].due_date = now + 7 * TicksPerDay
    /\ renewals[2].due_date = now - 1
    /\ out.summary.due_this_week = 1
    /\ out.summary.due_this_month = 1
    /\ out.summary.overdue = 1

\* C24: a JobCardViewSet.update step stores no Renewal itself, and it calls
\* generate_renewals_for_jobcard, once and for the updated job card as
\* stored, exactly when the update changed next_service_date,
\* contract_duration or job_type; otherwise it answers with no call made.
C24_UpdateGeneratesIffFieldChanged ==
    [][(/\ extraOps' # extraOps /\ gen = NoGenCall
        /\ (out'.op = ViewUpdate \/ gen'.caller = ViewUpdate))
        => LET Changed(j) ==
                   \/ jobs'[j].next_service_date # jobs[j].next_service_date
                   \/ jobs'[j].contract_duration # jobs[j].contract_duration
                   \/ jobs'[j].job_type # jobs[j].job_type
           IN  /\ renewals' = renewals
               /\ DOMAIN jobs' = DOMAIN jobs
               /\ IF \E j \in DOMAIN jobs : Changed(j)
                  THEN /\ gen'.job \in DOMAIN jobs /\ Changed(gen'.job)
                       /\ gen'.caller = ViewUpdate
                       /\ gen'.obj = jobs'[gen'.job]
                       /\ gen'.phase = "start" /\ gen'.created = <<>>
                  ELSE /\ gen' = NoGenCall
                       /\ out'.op = ViewUpdate /\ out'.status = "200"
                       /\ out'.count = 0]_vars

\* C24 witness: an update that changed job_type alone, of a Customer job card
\* with contract_duration 3 to Society, was answered after its generation
\* call stored the four renewals of the contract.
C24_TypeChangeGenerated ==
    /\ out.op = ViewUpdate /\ out.status = "200" /\ ~out.gen_failed
    /\ out.count = 4
    /\ lastGen.job = out.job
    /\ lastGen.before # {}
    /\ jobs[out.job].job_type = Society
    /\ jobs[out.job].next_service_date = Date(2025, 2, 1)

\* C25: a step of update_urgency_levels or update_urgency_levels_for_jobcard
\* changes no column of any Renewal row but urgency_level, and no step of
\* either, however interleaved with mark_completed, takes a renewal from
\* Completed back to Due.
C25_RecomputeWritesTierOnly ==
    /\ [][\A p \in Procs :
            (pc[p] = "loop" /\ local'[p] # local[p])
            => /\ DOMAIN renewals' = DOMAIN renewals
               /\ \A i \in DOMAIN renewals :
                     [renewals'[i] EXCEPT !.urgency_level = renewals[i].urgency_level]
                         = renewals[i]]_vars
    /\ [][\A i \in DOMAIN renewals :
            renewals[i].status = Completed => renewals'[i].status = Completed]_vars

\* C25 witness: update_urgency_levels loaded a renewal as Due, mark_completed
\* completed it and returned, and then update_urgency_levels saved its loaded
\* object: the row is Completed.
C25_SavedAfterCompletion ==
    \E p, q \in Procs :
        /\ req[p].kind = UpdateUrgencyLevels /\ local[p].late >= 1
        /\ req[q].kind = MarkCompletedOp /\ pc[q] = "done" /\ res[q].status = "ok"
        /\ renewals[req[q].renewal_id].status = Completed
        /\ local[p].stack # <<>>
        /\ local[p].stack[1].loaded[req[q].renewal_id].status = Due

\* The Renewal rows without the Completed ones.
NotCompleted(rows) ==
    [i \in {k \in DOMAIN rows : rows[k].status # Completed} |-> rows[i]]

\* C26: no step of generation, recomputation, pause / resume or completion
\* removes a Completed renewal or takes it back to Due; a renewal becomes
\* Completed only by a mark_completed step for it; a Completed renewal is in
\* neither result of get_active_renewals and counts in no field of
\* get_upcoming_summary; and mark_completed for an id that is not stored
\* answers not-found and changes no row.
C26_CompletedStaysCompleted ==
    /\ [][\A i \in DOMAIN renewals :
            renewals[i].status = Completed
            => (i \in DOMAIN renewals' /\ renewals'[i].status = Completed)]_vars
    /\ [][\A i \in DOMAIN renewals' :
            (/\ renewals'[i].status # Due
             /\ (i \in DOMAIN renewals => renewals[i].status = Due))
            => /\ i \in DOMAIN renewals
               /\ renewals'[i].status = Completed
               /\ out'.op = MarkCompletedOp /\ out'.status = "200"
               /\ out'.renewal = i]_vars
    /\ [](\A i \in DOMAIN renewals :
            renewals[i].status = Completed
            => \A include_paused \in BOOLEAN :
                  /\ i \notin get_active_renewals(include_paused)
                  /\ get_upcoming_summary(include_paused)
                         = SummaryOn(NotCompleted(renewals), jobs, now, include_paused))
    /\ [][(extraOps' # extraOps /\ out'.op = MarkCompletedOp)
            => IF out'.renewal \in DOMAIN renewals
               THEN /\ out'.status = "200"
                    /\ renewals'[out'.renewal].status = Completed
               ELSE /\ out'.status = "404"
                    /\ renewals' = renewals /\ jobs' = jobs /\ clients' = clients]_vars

\* C26 witness: after a renewal of a Society job card was completed, the job
\* card was paused, time passed and the recomputation changed the level of a
\* Due sibling: the renewal is still Completed.
C26_CompletedThenPausedRecomputed ==
    /\ out.op = UpdateUrgencyLevels /\ out.count >= 1
    /\ extraOps >= 4
    /\ jobs[1].is_paused /\ jobs[1].job_type = Society
    /\ \E i, k \in DOMAIN renewals :
          /\ renewals[i].status = Completed /\ renewals[i].urgency_level = Normal
          /\ renewals[k].status = Due /\ renewals[k].urgency_level = High

\* C27: when JobCardViewSet.create or an update that changed
\* next_service_date (the renewals stored before were for other dates) has
\* run its generation for a Customer job card, the job card has at most one
\* generated Due renewal, and that one is due at midnight of the job card's
\* next_service_date.
C27_SupersededRenewalsDoNotAccumulate ==
    \A j \in DOMAIN jobs :
        (/\ jobs[j].job_type = Customer
         /\ gen = NoGenCall
         /\ out.op \in {ViewCreate, ViewUpdate} /\ out.job = j /\ ~out.gen_failed
         /\ lastGen.job = j /\ lastGen.obj = jobs[j]
         /\ \A i \in lastGen.before :
               renewals[i].due_date # Midnight(jobs[j].next_service_date))
        => LET generated == {i \in DueOfJob(renewals, j) :
                                /\ renewals[i].renewal_type = Contract
                                /\ renewals[i].remarks = RemarkCustomer}
           IN  /\ Cardinality(generated) <= 1
               /\ \A i \in generated :
                     renewals[i].due_date = Midnight(jobs[j].next_service_date)

\* C28: while a mark_completed request runs alone, the saves made inside the
\* update_urgency_levels_for_jobcard calls of its renewal.save() never number
\* more than the Due renewals of the job card whose stored level differed from
\* the computed one when that save was done, and the calls are never nested
\* deeper than that number plus one.
C28_NestedSavesBounded ==
    \A p \in Procs :
        (/\ req[p].kind = MarkCompletedOp
         /\ pc[p] \in {"select_job", "loop", "done"}
         /\ req[p].renewal_id \in DOMAIN renewals
         /\ \A q \in Procs \ {p} : pc[q] = "idle")
        => /\ local[p].saves <= local[p].stale
           /\ Len(local[p].stack) <= local[p].stale + 1

\* C29: once a toggle_jobcard_pause call and an update_payment_status call
\* for the same job card have both returned True, the job card stores the
\* pause flag the first asked for and the payment status the second asked for.
C29_NeitherWriteLost ==
    \A p, q \in Procs :
        (/\ req[p].kind = TogglePauseOp /\ req[q].kind = UpdatePaymentStatus
         /\ req[p].jobcard_id = req[q].jobcard_id
         /\ pc[p] = "done" /\ pc[q] = "done"
         /\ res[p].status = "True" /\ res[q].status = "True")
        => /\ jobs[req[p].jobcard_id].is_paused = req[p].is_paused
           /\ jobs[req[p].jobcard_id].payment_status = req[q].status

\* C30: when a convert_to_jobcard call ends with an error, the clients, job
\* cards and inquiries are those stored when it began; when it returns, the
\* job cards are those stored when it began and one more, for the client the
\* call resolved, and the inquiry is Converted.
C30_ConvertAllOrNothing ==
    [][\A p \in Procs :
        (req[p].kind = ConvertOp /\ pc[p] # "done" /\ pc'[p] = "done") =>
            LET entry == local[p].savepoint IN
              IF res'[p].status = "error"
              THEN /\ clients' = entry.clients
                   /\ jobs' = entry.jobs
                   /\ inquiries' = entry.inquiries
              ELSE /\ Len(jobs') = Len(entry.jobs) + 1
                   /\ SubSeq(jobs', 1, Len(entry.jobs)) = entry.jobs
                   /\ jobs'[Len(jobs')].client = res'[p].client
                   /\ \E c \in clients' : c.id = res'[p].client
                   /\ clients' \ entry.clients \subseteq
                          {c \in clients' : c.id = res'[p].client /\ res'[p].created}
                   /\ inquiries'[req[p].inquiry_id].status = Converted]_vars

\* A call that had created its client failed on the job card and ended.
C30_FailedAfterClientCreated ==
    \E p \in Procs :
        /\ req[p].kind = ConvertOp
        /\ pc[p] = "done"
        /\ res[p].status = "error"
        /\ res[p].created
        /\ nextClientId > local[p].savepoint.nextClientId
        /\ clients = local[p].savepoint.clients

=============================================================================
